---- MODULE Spec2Model ----
(***************************************************************************)
(* Model of the embedded-database persistence engine of open-notebook:     *)
(*   - SQLiteConnectionPool (single-writer pool, write queue, write loop,  *)
(*     shutdown) and the process-wide pool registry                        *)
(*     (open_notebook/database/sqlite_repository.py),                      *)
(*   - the job-table bootstrap of api/background_tasks.py,                 *)
(*   - the source-processing workflow and its job status updates           *)
(*     (open_notebook/services/source_processor_service.py,                *)
(*      api/background_tasks.py, services/command_table_service.py).       *)
(*                                                                         *)
(* Scheduling model: one asyncio event loop at a time; an action is the    *)
(* code a coroutine runs between two suspension points (awaits).  A call   *)
(* handed to asyncio.to_thread is a span: it is in `executing` from the    *)
(* step that starts it to the step that resumes after it.                  *)
(***************************************************************************)
EXTENDS Integers, Sequences, FiniteSets, TLC

\* ---- bounds of the model -------------------------------------------------
MaxPools   == 2   \* pool objects constructed for the one database path
MaxCallers == 2   \* application tasks issuing requests concurrently
MaxOps     == 3   \* write requests issued through execute_write
MaxLoops   == 2   \* event loops (runtime restarts + 1)
MaxTasks   == 2   \* write-loop tasks created before a task may call initialize() itself

None == 0         \* Python None for object references

Callers == 1..MaxCallers      \* tasks calling the write operations of the facade
Tracker == MaxCallers + 1     \* the task running _ensure_command_table
Procs   == Callers \cup {Tracker}

VARIABLES
    registry,      \* _connection_pools[db_path]: pool id or None
    pool,          \* sequence of the SQLiteConnectionPool objects constructed
    tasks,         \* sequence of the _process_writes tasks created
    ops,           \* sequence of the write requests handed to execute_write
    executing,     \* statements running on a writer connection (in a thread)
    caller,        \* position of every application task
    closer,        \* position of close_connection_pool / pool.close
    curLoop,       \* identity of the running event loop
    commandTable,  \* whether the command table exists
    job,           \* the stored command/job row
    wf,            \* position of process_source
    db,            \* the stored rows of every table of the database
    call,          \* the facade call every client task is in
    hist,          \* the previous finished facade call of every client
    wq,            \* the write statements handed to execute_write
    clock,         \* datetime.now(timezone.utc)
    ntok,          \* number of tokens generate_id has handed out
    codec,         \* a value on its way through the field normalization
    issued,        \* the update_command_status calls process_source has made
    qry            \* a repo_query call on its way through the translator

vars == <<registry, pool, tasks, ops, executing, caller, closer, curLoop,
          commandTable, job, wf, db, call, hist, wq, clock, ntok, codec,
          issued, qry>>

\* the state of the connection pool and of the job workflow
poolVars == <<registry, pool, tasks, ops, executing, caller, closer, curLoop,
              commandTable, job, wf>>

\* the state of the repository facade: tables, calls and their writes
repoVars == <<db, call, hist, wq, clock, ntok>>

\* ---- objects -------------------------------------------------------------

\* SQLiteConnectionPool.__init__.  conn: the state of the connection held in
\* _writer_conn; conns: the writer connections create_writer has opened for
\* the pool that nobody has closed
NewPool ==
    [initialized |-> FALSE, closed |-> FALSE, conn |-> "none", conns |-> 0, loop |-> None,
     queue |-> <<>>, unfinished |-> 0, task |-> None]

IdleCaller == [pc |-> "idle", pool |-> None, kind |-> "none", op |-> None, via |-> "none"]

\* mark: the number of write requests issued when close() was called
IdleCloser == [pc |-> "idle", pool |-> None, woken |-> FALSE, mark |-> 0]

NoEntry == [func |-> None, future |-> None]

\* a write that is not a job status update
NoUpd == [status |-> "none", given |-> {}, progress |-> 0, result |-> "null", error |-> "null"]

AbsentJob == [status |-> "absent", progress |-> 0, result |-> "null", error |-> "null"]

OffWf == [pc |-> "off", phase |-> "none", op |-> None, err |-> "none"]

\* `self._writer_task and not self._writer_task.done()`
TaskAlive(t) == t # None /\ tasks[t].pc # "done"

\* initialize(), from its entry to its first await: the event-loop check, the
\* early return and the dead-writer check.  ret = TRUE: returned without
\* (re)initializing.
InitializeEnter(pl) ==
    LET changed == pl.initialized /\ pl.loop # curLoop
        p1 == IF changed
              THEN [pl EXCEPT !.initialized = FALSE, !.task = None,
                              !.queue = <<>>, !.unfinished = 0]
              ELSE pl
        alive == p1.initialized /\ TaskAlive(p1.task)
        p2 == IF p1.initialized /\ ~TaskAlive(p1.task)
              THEN [p1 EXCEPT !.initialized = FALSE]
              ELSE p1
    IN  IF alive THEN [ret |-> TRUE, pool |-> p1]
                 ELSE [ret |-> p2.initialized, pool |-> p2]

\* Queue.task_done(): the join() of close() is woken when the count of
\* unfinished items reaches zero
TaskDone(pl, p) == [pl EXCEPT ![p].unfinished = @ - 1]

WakesJoin(pl, p) ==
    closer.pc = "join" /\ closer.pool = p /\ pl[p].unfinished = 0

\* the partial update of repo_update / update_command_status: only the
\* supplied fields are written
ApplyUpdate(row, upd) ==
    IF upd.status = "none" \/ row.status = "absent" THEN row
    ELSE [status   |-> upd.status,
          progress |-> IF "progress" \in upd.given THEN upd.progress ELSE row.progress,
          result   |-> IF "result" \in upd.given THEN upd.result ELSE row.result,
          error    |-> IF "error_message" \in upd.given THEN upd.error ELSE row.error]

\* A request whose func has run and whose future has been consumed by its
\* caller (or cancelled by the caller's timeout) is referenced by nobody: the
\* tuple and the future are garbage.
Retired == [pool |-> None, state |-> "retired", runs |-> 1, fut |-> "none",
            futVal |-> None, upd |-> NoUpd]

Collect(os) ==
    [o \in DOMAIN os |->
        IF os[o].state = "executed" /\ os[o].fut \in {"consumed", "cancelled"}
        THEN Retired ELSE os[o]]

\* ---- the write loop: SQLiteConnectionPool._process_writes ----------------

\* future.set_result / future.set_exception on the future of the dequeued
\* entry; on a cancelled future both raise InvalidStateError, which the outer
\* handler logs
ResolveFuture(os, entry, ok) ==
    IF os[entry.future].fut = "pending"
    THEN [os EXCEPT ![entry.future].fut = IF ok THEN "result" ELSE "exception",
                    ![entry.future].futVal = entry.func]
    ELSE os

\* a queue that hands out the newest entry first
DequeueNewest(q) == [entry |-> q[Len(q)], rest |-> SubSeq(q, 1, Len(q) - 1)]

\* queue.get() on the FIFO asyncio.Queue: the oldest entry and the rest
Dequeue(q) == [entry |-> Head(q), rest |-> Tail(q)]

\* a loop that discards the entry of a caller that has given up instead of
\* running it
StartEntrySkipCancelled(t, e, rest, pl, os, ex) ==
    LET p == tasks[t].pool
    IN  IF os[e.func].fut = "cancelled"
        THEN /\ tasks' = [tasks EXCEPT ![t] = [@ EXCEPT !.pc = "get", !.entry = NoEntry]]
             /\ pool' = [pl EXCEPT ![p].queue = rest, ![p].unfinished = @ - 1]
             /\ ops' = [os EXCEPT ![e.func].state = "executed"]
             /\ executing' = ex
        ELSE /\ tasks' = [tasks EXCEPT ![t] = [@ EXCEPT !.pc = "exec", !.entry = e]]
             /\ pool' = [pl EXCEPT ![p].queue = rest]
             /\ ops' = [os EXCEPT ![e.func].state = "exec", ![e.func].runs = @ + 1]
             /\ executing' = ex \cup {[conn |-> p, by |-> "loop", op |-> e.func, who |-> t]}

\* the dequeued entry (func, args, kwargs, future) is unpacked and func is handed
\* to a thread, whatever the state of the future
StartEntry(t, e, rest, pl, os, ex) ==
    LET p == tasks[t].pool
    IN  /\ tasks' = [tasks EXCEPT ![t] = [@ EXCEPT !.pc = "exec", !.entry = e]]
        /\ pool' = [pl EXCEPT ![p].queue = rest]
        /\ ops' = [os EXCEPT ![e.func].state = "exec", ![e.func].runs = @ + 1]
        /\ executing' = ex \cup {[conn |-> p, by |-> "loop", op |-> e.func, who |-> t]}

\* `while not self._closed` and the `await wait_for(queue.get())` that follows:
\* the task ends, suspends on the empty queue, or dequeues the head entry and
\* hands it to a thread
LoopTop(t, pl, os, ex) ==
    LET p == tasks[t].pool
        d == Dequeue(pl[p].queue)
    IN  IF pl[p].closed
        THEN /\ tasks' = [tasks EXCEPT ![t] = [@ EXCEPT !.pc = "done", !.entry = NoEntry]]
             /\ pool' = pl
             /\ ops' = os
             /\ executing' = ex
        ELSE IF pl[p].queue = <<>>
        THEN /\ tasks' = [tasks EXCEPT ![t] = [@ EXCEPT !.pc = "get", !.entry = NoEntry]]
             /\ pool' = pl
             /\ ops' = os
             /\ executing' = ex
        ELSE StartEntry(t, d.entry, d.rest, pl, os, ex)

\* first step of a new write-loop task
WriterTop(t) ==
    /\ tasks[t].pc = "top"
    /\ LoopTop(t, pool, Collect(ops), executing)
    /\ UNCHANGED <<repoVars, codec, issued, qry, registry, caller, closer, curLoop, commandTable, job, wf>>

\* queue.get() returns an entry to the suspended loop
WriterGet(t) ==
    /\ tasks[t].pc = "get"
    /\ pool[tasks[t].pool].queue # <<>>
    /\ LET d == Dequeue(pool[tasks[t].pool].queue)
       IN  StartEntry(t, d.entry, d.rest, pool, Collect(ops), executing)
    /\ UNCHANGED <<repoVars, codec, issued, qry, registry, caller, closer, curLoop, commandTable, job, wf>>

\* wait_for(queue.get(), 1.0) times out on the empty queue; `continue`
\* re-evaluates `while not self._closed`
WriterTimeout(t) ==
    /\ tasks[t].pc = "get"
    /\ pool[tasks[t].pool].queue = <<>>
    /\ pool[tasks[t].pool].closed
    /\ tasks' = [tasks EXCEPT ![t] = [@ EXCEPT !.pc = "done"]]
    /\ UNCHANGED <<repoVars, codec, issued, qry, registry, pool, ops, executing, caller, closer, curLoop,
                   commandTable, job, wf>>

\* the thread returns (ok) or raises: resolve the future, task_done(), and
\* back to the top of the loop
WriterExecDone(t, ok) ==
    /\ tasks[t].pc = "exec"
    /\ LET p  == tasks[t].pool
           e  == tasks[t].entry
           os == [ResolveFuture(Collect(ops), e, ok) EXCEPT ![e.func].state = "executed"]
           pl == TaskDone(pool, p)
           ex == executing \ {[conn |-> p, by |-> "loop", op |-> e.func, who |-> t]}
       IN  /\ LoopTop(t, pl, os, ex)
           /\ job' = IF ok THEN ApplyUpdate(job, ops[e.func].upd) ELSE job
           /\ closer' = IF WakesJoin(pl, p) THEN [closer EXCEPT !.woken = TRUE] ELSE closer
    /\ UNCHANGED <<repoVars, codec, issued, qry, registry, caller, curLoop, commandTable, wf>>

\* the thread of a write whose loop task was cancelled during the await runs to
\* its end; nobody resolves the future
OrphanThreadDone(e, ok) ==
    /\ e \in executing
    /\ e.by = "loop"
    /\ tasks[e.who].pc = "done"
    /\ executing' = executing \ {e}
    /\ ops' = [Collect(ops) EXCEPT ![e.op].state = "executed"]
    /\ job' = IF ok THEN ApplyUpdate(job, ops[e.op].upd) ELSE job
    /\ UNCHANGED <<repoVars, codec, issued, qry, registry, pool, tasks, caller, closer, curLoop, commandTable, wf>>

\* ---- callers: get_connection_pool, execute_write, db_connection ----------

InitPcs == {"init_conn", "init_schema"}

\* write requests that will still be enqueued by callers inside initialize()
PendingWrites ==
    Cardinality({c \in Procs : caller[c].pc \in InitPcs /\ caller[c].kind = "write"})

\* execute_write after its initialization guard: create the future, put the
\* entry on the queue, then wait_for(future, 30.0)
Enqueue(p, pl, upd) ==
    LET o == Len(ops) + 1
    IN  /\ ops' = Append(Collect(ops), [pool |-> p, state |-> "queued", runs |-> 0,
                               fut |-> "pending", futVal |-> None, upd |-> upd])
        /\ pool' = [pl EXCEPT ![p].queue = Append(@, [func |-> o, future |-> o]),
                              ![p].unfinished = @ + 1]

\* The body of a request once get_connection_pool has returned pool p, up to
\* its next await.  pl, ex: the pool objects and running statements as left by
\* the code that ran before in the same step.

\* repo_create, repo_update, ...: pool.get_writer_connection(), then
\* pool.execute_write(conn.execute, sql, data)
ProceedWrite(c, p, via, pl, ex) ==
    IF ~pl[p].initialized /\ ~InitializeEnter(pl[p]).ret
    THEN \* execute_write: `if not self._initialized: await self.initialize()`
         /\ pool' = [pl EXCEPT ![p] = InitializeEnter(pl[p]).pool]
         /\ caller' = [caller EXCEPT ![c] = [pc |-> "init_conn", pool |-> p,
                           kind |-> "write", op |-> None, via |-> "execute_write"]]
         /\ executing' = ex
         /\ UNCHANGED ops
    ELSE /\ Enqueue(p, pl, NoUpd)
         /\ caller' = [caller EXCEPT ![c] = [pc |-> "waiting", pool |-> p,
                           kind |-> "write", op |-> Len(ops) + 1, via |-> via]]
         /\ executing' = ex

\* _ensure_command_table: db_connection() yields pool.get_writer_connection()
\* and CREATE TABLE is handed to a thread on it
ProceedBootstrap(c, p, via, pl, ex) ==
    IF ~pl[p].initialized
    THEN \* get_writer_connection raises "Pool not initialized"
         /\ pool' = pl
         /\ caller' = [caller EXCEPT ![c] = IdleCaller]
         /\ executing' = ex
         /\ UNCHANGED ops
    ELSE /\ pool' = pl
         /\ caller' = [caller EXCEPT ![c] = [pc |-> "boot_exec", pool |-> p,
                           kind |-> "bootstrap", op |-> None, via |-> via]]
         /\ executing' = ex \cup {[conn |-> p, by |-> "bootstrap", op |-> None, who |-> c]}
         /\ UNCHANGED ops

\* a task that awaited pool.initialize() itself has nothing more to do
ProceedReturn(c, pl, ex) ==
    /\ pool' = pl
    /\ caller' = [caller EXCEPT ![c] = IdleCaller]
    /\ executing' = ex
    /\ UNCHANGED ops

Proceed(c, p, kind, via, pl, ex) ==
    CASE kind = "write"     -> ProceedWrite(c, p, via, pl, ex)
      [] kind = "bootstrap" -> ProceedBootstrap(c, p, via, pl, ex)
      [] OTHER              -> ProceedReturn(c, pl, ex)

\* a request starts in an idle task; a write request needs a free request
\* slot, and the bootstrap creates the table only when its probe query failed
RequestGuard(c, kind) ==
    /\ caller[c].pc = "idle"
    /\ kind = "write" => Len(ops) + PendingWrites < MaxOps
    /\ kind = "bootstrap" => ~commandTable

\* get_connection_pool finds the pool of the path in the registry and returns
\* it without suspending; the request goes on in the same step
CallExisting(c, kind) ==
    /\ RequestGuard(c, kind)
    /\ registry # None
    /\ Proceed(c, registry, kind, "registry", pool, executing)
    /\ UNCHANGED <<repoVars, codec, issued, qry, registry, tasks, closer, curLoop, commandTable, job, wf>>

\* get_connection_pool finds no pool for the path: construct one and await
\* pool.initialize(), which suspends in to_thread(create_writer)
CallNew(c, kind) ==
    /\ RequestGuard(c, kind)
    /\ registry = None
    /\ Len(pool) < MaxPools
    /\ LET r == InitializeEnter(NewPool)
       IN  /\ ~r.ret
           /\ pool' = Append(pool, r.pool)
    /\ caller' = [caller EXCEPT ![c] = [pc |-> "init_conn", pool |-> Len(pool) + 1,
                      kind |-> kind, op |-> None, via |-> "registry"]]
    /\ UNCHANGED <<repoVars, codec, issued, qry, registry, tasks, ops, executing, closer, curLoop, commandTable, job, wf>>

\* A task awaits initialize() on the pool of the registry: the method returns
\* at once on a pool that is initialized on the running loop with a live write
\* loop; otherwise it (re)initializes and suspends in to_thread(create_writer).
Initialize(c) ==
    /\ caller[c].pc = "idle"
    /\ registry # None
    /\ Len(tasks) < MaxTasks
    /\ LET p == registry
           r == InitializeEnter(pool[p])
       IN  /\ pool' = [pool EXCEPT ![p] = r.pool]
           /\ caller' = IF r.ret THEN caller
                         ELSE [caller EXCEPT ![c] = [pc |-> "init_conn", pool |-> p,
                                   kind |-> "initialize", op |-> None, via |-> "initialize"]]
    /\ UNCHANGED <<repoVars, codec, issued, qry, registry, tasks, ops, executing, closer, curLoop, commandTable, job, wf>>

\* initialize() marking the pool initialized as soon as the connection exists
InitConnCreatedMarked(c) ==
    /\ caller[c].pc = "init_conn"
    /\ LET p == caller[c].pool
       IN  /\ pool' = [pool EXCEPT ![p].conn = "open", ![p].conns = @ + 1,
                                 ![p].initialized = TRUE]
           /\ executing' = executing \cup {[conn |-> p, by |-> "init", op |-> None, who |-> c]}
    /\ caller' = [caller EXCEPT ![c].pc = "init_schema"]
    /\ UNCHANGED <<repoVars, codec, issued, qry, registry, tasks, ops, closer, curLoop, commandTable, job, wf>>

\* initialize(): create_writer returned; the schema script is handed to a
\* thread on the new writer connection
InitConnCreated(c) ==
    /\ caller[c].pc = "init_conn"
    /\ LET p == caller[c].pool
       IN  /\ pool' = [pool EXCEPT ![p].conn = "open", ![p].conns = @ + 1]
           /\ executing' = executing \cup {[conn |-> p, by |-> "init", op |-> None, who |-> c]}
    /\ caller' = [caller EXCEPT ![c].pc = "init_schema"]
    /\ UNCHANGED <<repoVars, codec, issued, qry, registry, tasks, ops, closer, curLoop, commandTable, job, wf>>

\* initialize(): the schema is applied; switch to autocommit, create the
\* write-loop task, record the event loop, set _initialized.  Back in
\* get_connection_pool the pool is stored in the registry and returned, and the
\* request goes on in the same step.
InitSchemaDone(c) ==
    /\ caller[c].pc = "init_schema"
    /\ LET p  == caller[c].pool
           t  == Len(tasks) + 1
           pl == [pool EXCEPT ![p].task = t, ![p].loop = curLoop, ![p].initialized = TRUE]
           ex == executing \ {[conn |-> p, by |-> "init", op |-> None, who |-> c]}
           ts == Append(tasks, [pool |-> p, pc |-> "top", entry |-> NoEntry])
       IN  /\ tasks' = ts
           /\ registry' = IF caller[c].via = "registry" THEN p ELSE registry
           /\ Proceed(c, p, caller[c].kind, caller[c].via, pl, ex)
    /\ UNCHANGED <<repoVars, codec, issued, qry, closer, curLoop, commandTable, job, wf>>

\* wait_for(future, 30.0) returns the result or raises the exception the
\* write loop stored in the future
CallerFutureDone(c) ==
    /\ caller[c].pc = "waiting"
    /\ ops[caller[c].op].fut \in {"result", "exception"}
    /\ ops' = Collect([ops EXCEPT ![caller[c].op].fut = "consumed"])
    /\ caller' = [caller EXCEPT ![c] = IdleCaller]
    /\ UNCHANGED <<repoVars, codec, issued, qry, registry, pool, tasks, executing, closer, curLoop,
                   commandTable, job, wf>>

\* what the timeout of wait_for(future, 30.0) does to the request: the future
\* is cancelled; the queue entry is left where it is
TimeoutFuture(os, o) == [os EXCEPT ![o].fut = "cancelled"]

\* a caller that awaits the future without a timeout
CallerNoTimeout(c) ==
    /\ caller[c].pc = "waiting"
    /\ FALSE
    /\ UNCHANGED vars

\* the 30 s elapse with the future still pending: "Database write operation
\* timed out" is raised to the caller
CallerTimeout(c) ==
    /\ caller[c].pc = "waiting"
    /\ ops[caller[c].op].fut = "pending"
    /\ ops' = TimeoutFuture(Collect(ops), caller[c].op)
    /\ caller' = [caller EXCEPT ![c] = IdleCaller]
    /\ UNCHANGED <<repoVars, codec, issued, qry, registry, pool, tasks, executing, closer, curLoop,
                   commandTable, job, wf>>

\* _ensure_command_table: CREATE TABLE ran on the writer connection; now
\* to_thread(conn.commit)
BootExecDone(c) ==
    /\ caller[c].pc = "boot_exec"
    /\ commandTable' = TRUE
    /\ caller' = [caller EXCEPT ![c].pc = "boot_commit"]
    /\ UNCHANGED <<repoVars, codec, issued, qry, registry, pool, tasks, ops, executing, closer, curLoop, job, wf>>

BootCommitDone(c) ==
    /\ caller[c].pc = "boot_commit"
    /\ executing' = executing \ {[conn |-> caller[c].pool, by |-> "bootstrap",
                                  op |-> None, who |-> c]}
    /\ caller' = [caller EXCEPT ![c] = IdleCaller]
    /\ UNCHANGED <<repoVars, codec, issued, qry, registry, pool, tasks, ops, closer, curLoop, commandTable, job, wf>>

\* ---- shutdown: close_connection_pool / SQLiteConnectionPool.close ---------

\* close() after join(): `PRAGMA wal_checkpoint(TRUNCATE)` is handed to a
\* thread on the writer connection
StartCheckpoint(p, pl) ==
    /\ pool' = pl
    /\ executing' = IF pl[p].conn # "none"
                    THEN executing \cup {[conn |-> p, by |-> "close", op |-> None, who |-> None]}
                    ELSE executing
    /\ closer' = [pc |-> "checkpoint", pool |-> p, woken |-> FALSE,
                  mark |-> IF closer.pc = "idle" THEN Len(ops) ELSE closer.mark]

\* close_connection_pool reaches the pool of the path: _closed = True, then
\* `await self._write_queue.join()`, which returns at once when no item is
\* unfinished
CloseStart ==
    /\ closer.pc = "idle"
    /\ registry # None
    /\ LET p  == registry
           pl == [pool EXCEPT ![p].closed = TRUE]
       IN  IF pl[p].unfinished = 0
           THEN StartCheckpoint(p, pl)
           ELSE /\ pool' = pl
                /\ closer' = [pc |-> "join", pool |-> p, woken |-> FALSE, mark |-> Len(ops)]
                /\ UNCHANGED executing
    /\ UNCHANGED <<repoVars, codec, issued, qry, registry, tasks, ops, caller, curLoop, commandTable, job, wf>>

\* join() returns: task_done() brought the count of unfinished items to zero
CloseJoined ==
    /\ closer.pc = "join"
    /\ closer.woken
    /\ StartCheckpoint(closer.pool, pool)
    /\ UNCHANGED <<repoVars, codec, issued, qry, registry, tasks, ops, caller, curLoop, commandTable, job, wf>>

\* the checkpoint returned: cancel the write-loop task and await it, then hand
\* conn.close to a thread.  A task cancelled inside `await to_thread(func)`
\* runs its `finally: task_done()`; the thread itself runs on.
CloseCheckpointDone ==
    /\ closer.pc = "checkpoint"
    /\ LET p == closer.pool
           t == pool[p].task
       IN  /\ executing' = executing \ {[conn |-> p, by |-> "close", op |-> None, who |-> None]}
           /\ IF TaskAlive(t)
              THEN /\ tasks' = [tasks EXCEPT ![t].pc = "done"]
                   /\ pool' = IF tasks[t].pc = "exec" THEN TaskDone(pool, p) ELSE pool
              ELSE UNCHANGED <<repoVars, codec, issued, qry, tasks, pool>>
    /\ closer' = [closer EXCEPT !.pc = "closeconn"]
    /\ UNCHANGED <<repoVars, codec, issued, qry, registry, ops, caller, curLoop, commandTable, job, wf>>

\* the writer connection is closed; close_connection_pool clears the registry
CloseConnClosed ==
    /\ closer.pc = "closeconn"
    /\ pool' = [pool EXCEPT ![closer.pool].conn = "closed",
                            ![closer.pool].conns = IF pool[closer.pool].conn = "open"
                                                   THEN @ - 1 ELSE @]
    /\ registry' = None
    /\ closer' = IdleCloser
    /\ UNCHANGED <<repoVars, codec, issued, qry, tasks, ops, executing, caller, curLoop, commandTable, job, wf>>

\* ---- the host restarts its event loop ------------------------------------

\* The running loop ends (asyncio.run returns) and a new one starts, with the
\* pool objects and the registry left in place: every task of the old loop is
\* cancelled.  Taken at a quiet moment: no request, shutdown or thread is in
\* flight.
RestartRuntime ==
    /\ curLoop < MaxLoops
    /\ \A c \in Procs : caller[c].pc = "idle"
    /\ closer.pc = "idle"
    /\ wf.pc \in {"off", "returned", "raised"}
    /\ executing = {}
    /\ pool # <<>>
    /\ curLoop' = curLoop + 1
    /\ tasks' = [t \in DOMAIN tasks |-> [tasks[t] EXCEPT !.pc = "done"]]
    /\ UNCHANGED <<repoVars, codec, issued, qry, registry, pool, ops, executing, caller, closer, commandTable, job, wf>>

\* ---- the processing workflow: SourceProcessorService.process_source ------
\* (process_source_background of api/background_tasks.py is the same code)

UpdateSteps   == {"U10", "U20", "U80", "UDONE", "UFAIL"}
ExternalSteps == {"LOAD", "GRAPH", "GATHER"}

\* the statement that follows a step that returned normally
NextStep(pc) ==
    CASE pc = "U10"    -> "LOAD"
      [] pc = "LOAD"   -> "U20"
      [] pc = "U20"    -> "GRAPH"
      [] pc = "GRAPH"  -> "U80"
      [] pc = "U80"    -> "GATHER"
      [] pc = "GATHER" -> "UDONE"
      [] pc = "UDONE"  -> "returned"
      [] pc = "UFAIL"  -> "returned"

\* the arguments of the update_command_status call of a step; `given` names
\* the optional arguments that are not None, the only ones written
\* a progress update that also stores a partial result
RunningWithResult(n) ==
    [status |-> "running", given |-> {"progress", "result"}, progress |-> n,
     result |-> "success", error |-> "null"]

Running(n) ==
    [status |-> "running", given |-> {"progress"}, progress |-> n,
     result |-> "null", error |-> "null"]

\* updates whose progress does not advance after the source graph has run
UpdateOfStalled(pc, err) ==
    CASE pc = "U10"   -> Running(10)
      [] pc = "U20"   -> Running(20)
      [] pc = "U80"   -> Running(20)
      [] pc = "UDONE" -> [status |-> "completed", given |-> {"progress", "result"},
                          progress |-> 100, result |-> "success", error |-> "null"]
      [] pc = "UFAIL" -> [status |-> "failed", given |-> {"result", "error_message"},
                          progress |-> 0, result |-> "failure", error |-> err]

UpdateOf(pc, err) ==
    CASE pc = "U10"   -> Running(10)
      [] pc = "U20"   -> Running(20)
      [] pc = "U80"   -> Running(80)
      [] pc = "UDONE" -> [status |-> "completed", given |-> {"progress", "result"},
                          progress |-> 100, result |-> "success", error |-> "null"]
      [] pc = "UFAIL" -> [status |-> "failed", given |-> {"result", "error_message"},
                          progress |-> 0, result |-> "failure", error |-> err]

\* where control goes once `pc` is known
Goto(pc) ==
    [pc |-> pc,
     phase |-> IF pc \in UpdateSteps THEN "call" ELSE IF pc \in ExternalSteps THEN "run" ELSE "none",
     op |-> None, err |-> "none"]

\* an exception with message msg (str(e): "msg" or "empty") leaves a step:
\* inside the try block `except Exception` takes it to the "failed" update;
\* raised by the "failed" update itself it leaves process_source
Raise(w, msg) ==
    IF w.pc = "UFAIL"
    THEN [pc |-> "raised", phase |-> "none", op |-> None, err |-> "none"]
    ELSE [pc |-> "UFAIL", phase |-> "call", op |-> None, err |-> msg]

\* update_command_status -> repo_update: the UPDATE goes through
\* get_connection_pool and execute_write, up to wait_for(future, 30.0)
WfCallUpdate ==
    /\ wf.pc \in UpdateSteps
    /\ wf.phase = "call"
    /\ registry # None
    /\ pool[registry].initialized
    /\ Enqueue(registry, pool, UpdateOf(wf.pc, wf.err))
    /\ wf' = [wf EXCEPT !.phase = "wait", !.op = Len(ops) + 1]
    /\ issued' = Append(issued, UpdateOf(wf.pc, wf.err))
    /\ UNCHANGED <<repoVars, codec, qry, registry, tasks, executing, caller, closer, curLoop, commandTable, job>>

\* the future of the UPDATE is resolved: with a result, repo_update goes on to
\* re-read the row; with an exception, repo_update raises "Failed to update
\* record"
WfFutureDone ==
    /\ wf.phase = "wait"
    /\ ops[wf.op].fut \in {"result", "exception"}
    /\ ops' = Collect([ops EXCEPT ![wf.op].fut = "consumed"])
    /\ wf' = IF ops[wf.op].fut = "result"
             THEN [wf EXCEPT !.phase = "read", !.op = None]
             ELSE Raise(wf, "msg")
    /\ UNCHANGED <<repoVars, codec, issued, qry, registry, pool, tasks, executing, caller, closer, curLoop, commandTable, job>>

\* the 30 s elapse: "Database write operation timed out", wrapped by
\* repo_update; the UPDATE stays where it is
WfTimeout ==
    /\ wf.phase = "wait"
    /\ ops[wf.op].fut = "pending"
    /\ ops' = TimeoutFuture(Collect(ops), wf.op)
    /\ wf' = Raise(wf, "msg")
    /\ UNCHANGED <<repoVars, codec, issued, qry, registry, pool, tasks, executing, caller, closer, curLoop, commandTable, job>>

\* repo_update re-reads the row on a reader connection: it returns, and the
\* workflow goes on, or the read raises
WfReadBack(ok) ==
    /\ wf.phase = "read"
    /\ wf' = IF ok THEN Goto(NextStep(wf.pc)) ELSE Raise(wf, "msg")
    /\ UNCHANGED <<repoVars, codec, issued, qry, registry, pool, tasks, ops, executing, caller, closer, curLoop,
                   commandTable, job>>

\* a step of the external collaborators (loading the transformations, the
\* source graph, gathering the results) returns or raises an exception whose
\* str() is a message or the empty string
WfExternal(outcome) ==
    /\ wf.pc \in ExternalSteps
    /\ wf.phase = "run"
    /\ wf' = IF outcome = "ok" THEN Goto(NextStep(wf.pc)) ELSE Raise(wf, outcome)
    /\ UNCHANGED <<repoVars, codec, issued, qry, registry, pool, tasks, ops, executing, caller, closer, curLoop,
                   commandTable, job>>

\* ---- field normalization: _prepare_data_for_insert, _row_to_dict --------

\* A Python or SQLite value: t is its type, v its content (the elements of a
\* list, the keys of a dict, the characters of a text, the two entries of an
\* asset object).  For a str, j tells which JSON document the text is ("" when
\* the text is not JSON).  "i:.." is an int, "s:.." a str.
PyNone == [t |-> "none", j |-> "", v |-> <<>>]

PyList(v) == [t |-> "list", j |-> "", v |-> v]

PyDict(keys) == [t |-> "dict", j |-> "", v |-> keys]

PyStr(j, v) == [t |-> "str", j |-> j, v |-> v]

PyInt(n) == [t |-> "int", j |-> "", v |-> <<n>>]

PyBool(b) == [t |-> "bool", j |-> "", v |-> <<b>>]

\* the nested asset object: for each of file_path and url, "absent" (no such
\* key), "none", "empty" (the empty string) or "text"
PyAsset(fp, url) == [t |-> "asset", j |-> "", v |-> <<fp, url>>]

\* `if value`, `not result['asset']`: the text of a JSON document ("[]",
\* "{}") is not the empty string
Truthy(val) ==
    CASE val.t = "none" -> FALSE
      [] val.t = "bool" -> val.v = <<"true">>
      [] val.t = "int"  -> val.v # <<"i:0">>
      [] val.t = "asset" -> val.v # <<"absent", "absent">>
      [] val.t = "str"  -> val.j # "" \/ val.v # <<>>
      [] OTHER -> val.v # <<>>

\* a JSON object has text keys: json.dumps writes the key 1 as "1"
JsonKey(k) == IF k = "i:1" THEN "s:1" ELSE k

\* json.dumps(value) of a list or dict
JsonDumps(val) ==
    PyStr(val.t, IF val.t = "dict" THEN [i \in DOMAIN val.v |-> JsonKey(val.v[i])] ELSE val.v)

\* json.loads(text): the document, or JSONDecodeError ("error")
JsonLoads(val) ==
    IF val.j = "" THEN [t |-> "error", j |-> "", v |-> <<>>]
    ELSE [t |-> val.j, j |-> "", v |-> val.v]

JsonWriteKeys == {"topics", "embedding", "speakers", "youtube_preferred_languages"}

JsonReadKeys == {"topics", "embedding", "youtube_preferred_languages"}

BoolKeys == {"archived", "is_built_in"}

AssetColumns == {"asset_file_path", "asset_url"}

\* value.get('file_path'), value.get('url') of an asset dict
AssetGet(val, i) ==
    CASE val.v[i] = "text"  -> PyStr("", <<"s:p">>)
      [] val.v[i] = "empty" -> PyStr("", <<>>)
      [] OTHER              -> PyNone

\* the columns one entry of data contributes to the INSERT / UPDATE
PreparedOf(key, val) ==
    IF key \in JsonWriteKeys /\ val.t # "none"
    THEN IF val.t \in {"list", "dict"} THEN [k \in {key} |-> JsonDumps(val)]
                                       ELSE [k \in {key} |-> val]
    ELSE IF key = "asset" /\ val.t # "none"
    THEN IF val.t \in {"asset", "dict"}
         THEN [k \in AssetColumns |->
                  IF val.t = "dict" THEN PyNone
                  ELSE AssetGet(val, IF k = "asset_file_path" THEN 1 ELSE 2)]
         ELSE [k \in {} |-> PyNone]
    ELSE IF key \in BoolKeys /\ val.t # "none"
    THEN [k \in {key} |-> PyInt(IF Truthy(val) THEN "i:1" ELSE "i:0")]
    ELSE [k \in {key} |-> val]

\* _prepare_data_for_insert(table, data); the entries of data are visited in
\* order, a later entry overwriting the column of an earlier one
RECURSIVE PrepareFrom(_, _, _)
PrepareFrom(data, keys, prepared) ==
    IF keys = {} THEN prepared
    ELSE LET key == CHOOSE k \in keys : TRUE
             one == PreparedOf(key, data[key])
         IN  PrepareFrom(data, keys \ {key},
                 [k \in DOMAIN prepared \cup DOMAIN one |->
                     IF k \in DOMAIN one THEN one[k] ELSE prepared[k]])

EmptyDict == [k \in {} |-> PyNone]

PrepareDataForInsert(data) == PrepareFrom(data, DOMAIN data, EmptyDict)

\* what _row_to_dict stores under a JSON key
RowJson(value) ==
    IF value.t = "str"
    THEN IF JsonLoads(value).t = "error" THEN value ELSE JsonLoads(value)
    ELSE value

\* the asset object _row_to_dict rebuilds from the two asset columns
RowAsset(row) ==
    LET part(k) == IF Truthy(row[k]) THEN "text" ELSE "absent"
        asset == PyAsset(part("asset_file_path"), part("asset_url"))
    IN  IF Truthy(asset) THEN asset ELSE PyNone

\* _row_to_dict(row)
RowToDict(row) ==
    LET keys == (DOMAIN row \ AssetColumns)
                  \cup (IF DOMAIN row \cap AssetColumns # {} THEN {"asset"} ELSE {})
    IN  [k \in keys |->
            IF k = "asset" /\ DOMAIN row \cap AssetColumns # {}
            THEN RowAsset([c \in AssetColumns |-> IF c \in DOMAIN row THEN row[c] ELSE PyNone])
            ELSE IF k \in JsonReadKeys /\ Truthy(row[k]) THEN RowJson(row[k])
            ELSE row[k]]

\* ---- the repository facade: identifiers, records, statements ------------

MaxClients == 2   \* client tasks calling the facade concurrently
MaxCalls   == 2   \* facade calls made, by all clients together
MaxClock   == 2   \* ticks of the wall clock

Clients == 1..MaxClients

\* the tables of the persisted schema and the columns the model keeps of
\* them; id is the primary key and ukey carries a UNIQUE constraint
Tables == {"note", "reference", "command"}

Columns == {"id", "created", "updated", "name", "ukey", "in", "out"}

\* COMMAND_TABLE_SQL: the columns of the command table, those declared NOT
\* NULL and those of type TEXT that hold no timestamp
CommandColumns ==
    {"id", "app", "command", "status", "input", "result", "error_message", "progress",
     "created", "updated"}

CommandNotNull == {"app", "command", "status", "created", "updated"}

TextColumns == {"app", "command", "status", "input", "result", "error_message"}

ColumnsOf(table) == IF table = "command" THEN CommandColumns ELSE Columns

NotNullOf(table) == IF table = "command" THEN CommandNotNull ELSE {}

\* the catalog of the database: db["sqlite_master"] holds the names of the
\* tables that exist
Catalog == "sqlite_master"

UniqueColumns == {"id", "ukey"}

IdColumns == {"id", "in", "out"}

\* the characters of the names the callers of the model pass as table,
\* relationship and column names
Spell(name) ==
    CASE name = "note"      -> <<"n", "o", "t", "e">>
      [] name = "reference" -> <<"r", "e", "f", "e", "r", "e", "n", "c", "e">>
      [] name = "command"   -> <<"c", "o", "m", "m", "a", "n", "d">>
      [] name = "id"        -> <<"i", "d">>
      [] name = "created"   -> <<"c", "r", "e", "a", "t", "e", "d">>
      [] name = "updated"   -> <<"u", "p", "d", "a", "t", "e", "d">>
      [] name = "name"      -> <<"n", "a", "m", "e">>
      [] name = "ukey"      -> <<"u", "k", "e", "y">>
      [] name = "in"        -> <<"i", "n">>
      [] name = "out"       -> <<"o", "u", "t">>
      [] name = "app"       -> <<"a", "p", "p">>
      [] name = "status"    -> <<"s", "t", "a", "t", "u", "s">>
      [] name = "input"     -> <<"i", "n", "p", "u", "t">>
      [] name = "result"    -> <<"r", "e", "s", "u", "l", "t">>
      [] name = "progress"  -> <<"p", "r", "o", "g", "r", "e", "s", "s">>
      [] name = "error_message" ->
             <<"e", "r", "r", "o", "r", "_", "m", "e", "s", "s", "a", "g", "e">>
      [] name = "col_2"     -> <<"c", "o", "l", "_", "2">>
      [] name = "x;y"       -> <<"x", ";", "y">>
      [] name = "1st"       -> <<"1", "s", "t">>
      [] name = ""          -> <<>>

Letters == {"a", "c", "d", "e", "f", "g", "i", "k", "l", "m", "n", "o", "p", "r", "s",
            "t", "u", "x", "y"}

Digits == {"1", "2"}

\* _IDENT_RE = ^[A-Za-z_][A-Za-z0-9_]*$ and _validate_identifier's fullmatch
IsIdentifier(name) ==
    LET w == Spell(name)
    IN  /\ Len(w) >= 1
        /\ w[1] \in Letters \cup {"_"}
        /\ \A i \in 2..Len(w) : w[i] \in Letters \cup Digits \cup {"_"}

\* column names that are put into the statement unchecked
ValidateKeysSkipped(data) == TRUE

\* [_validate_identifier(col) for col in data.keys()] raises no ValueError
ValidateKeys(data) == \A col \in DOMAIN data : IsIdentifier(col)

\* A record id is a text: pre is what precedes the first ":" (empty when
\* there is none), colon tells whether the text holds a ":", tok is the rest.
\* NoId is None.
MkId(table, tok) == [pre |-> table, tok |-> tok, colon |-> TRUE]

BareId(tok) == [pre |-> "", tok |-> tok, colon |-> FALSE]

NoId == [pre |-> "", tok |-> None, colon |-> FALSE]

\* a token every generated id has
GenerateIdFixed(table, n) == MkId(table, 1)

\* generate_id(table): f"{table}:{uuid.uuid4().hex[:16]}"; a uuid is a token
\* no earlier call has returned
GenerateId(table, n) == MkId(table, n + 1)

\* SQL NULL of a column
\* (None of a text is "null", of the INTEGER progress -1)
NullOf(col) ==
    IF col \in IdColumns THEN NoId
    ELSE IF col \in TextColumns THEN "null"
    ELSE IF col = "progress" THEN -1
    ELSE None

\* the value of a column the INSERT does not name: progress INTEGER DEFAULT 0
DefaultOf(col) == IF col = "progress" THEN 0 ELSE NullOf(col)

\* dict operations: data.pop(k, None), data[k] = v, {**a, **b}
Pop(d, k) == [x \in DOMAIN d \ {k} |-> d[x]]

Put(d, k, v) == [x \in DOMAIN d \cup {k} |-> IF x = k THEN v ELSE d[x]]

Merge(a, b) == [x \in DOMAIN a \cup DOMAIN b |-> IF x \in DOMAIN b THEN b[x] ELSE a[x]]

NoData == [x \in {} |-> None]

\* _prepare_data_for_insert and _row_to_dict on the columns of the model:
\* none of them is a JSON, asset or boolean field, so each is copied
PrepareRecord(data) == [k \in DOMAIN data |-> data[k]]

ReadRecord(row) == [k \in DOMAIN row |-> row[k]]

\* the stored row an INSERT makes of its named parameters
RowOf(table, data) ==
    [c \in ColumnsOf(table) |-> IF c \in DOMAIN data THEN data[c] ELSE DefaultOf(c)]

\* the row violates a NOT NULL constraint of its table
NullViolation(table, r) == \E c \in NotNullOf(table) : r[c] = NullOf(c)

\* the rows that violate a uniqueness constraint against row r
Conflicts(rows, r) ==
    {x \in rows : \E c \in UniqueColumns \cap DOMAIN r : x[c] # NullOf(c) /\ x[c] = r[c]}

\* "no such table" / "no such column": sqlite3.OperationalError
Operational(d, stmt) ==
    \/ stmt.table \notin d[Catalog]
    \/ ~(DOMAIN stmt.data \subseteq ColumnsOf(stmt.table))

\* a WHERE clause that every row satisfies
WhereIdAny(rows, id) == rows

\* WHERE id = :id
WhereId(rows, id) == {r \in rows : r["id"] = id}

NoStmt == [kind |-> "none", table |-> "", data |-> NoData, id |-> NoId]

\* a statement that creates the table anew, without its rows
CreateAfresh(d, table) ==
    IF table \in Tables
    THEN [d EXCEPT ![Catalog] = @ \cup {table}, ![table] = {}]
    ELSE d

\* CREATE TABLE IF NOT EXISTS table (...): a table that exists is left as it
\* is, with its rows
CreateIfMissing(d, table) ==
    IF table \in Tables /\ table \notin d[Catalog]
    THEN [d EXCEPT ![Catalog] = @ \cup {table}, ![table] = {}]
    ELSE d

\* conn.execute(sql, params) on the writer connection in autocommit mode: the
\* database after the statement and its outcome
ExecStmt(d, stmt) ==
    IF stmt.kind = "ddl" THEN [db |-> CreateIfMissing(d, stmt.table), res |-> "ok"]
    ELSE IF Operational(d, stmt) THEN [db |-> d, res |-> "OperationalError"]
    ELSE LET rows == d[stmt.table]
         IN CASE stmt.kind = "insert" ->
                    LET r == RowOf(stmt.table, stmt.data)
                    IN  IF Conflicts(rows, r) # {} \/ NullViolation(stmt.table, r)
                        THEN [db |-> d, res |-> "IntegrityError"]
                        ELSE [db |-> [d EXCEPT ![stmt.table] = rows \cup {r}],
                              res |-> "ok"]
              [] stmt.kind = "replace" ->
                    LET r == RowOf(stmt.table, stmt.data)
                    IN  IF NullViolation(stmt.table, r)
                        THEN [db |-> d, res |-> "IntegrityError"]
                        ELSE [db |-> [d EXCEPT ![stmt.table] =
                                        (rows \ Conflicts(rows, r)) \cup {r}],
                              res |-> "ok"]
              [] stmt.kind = "update" ->
                    LET hit   == WhereId(rows, stmt.id)
                        new   == {Merge(r, stmt.data) : r \in hit}
                        other == rows \ hit
                    IN  IF \E r \in new : Conflicts(other, r) # {} \/ NullViolation(stmt.table, r)
                        THEN [db |-> d, res |-> "IntegrityError"]
                        ELSE [db |-> [d EXCEPT ![stmt.table] = other \cup new],
                              res |-> "ok"]
              [] stmt.kind = "delete" ->
                    [db |-> [d EXCEPT ![stmt.table] = rows \ WhereId(rows, stmt.id)],
                     res |-> "ok"]

\* SELECT * FROM table WHERE id = :id on a reader connection
SelectById(d, table, id) ==
    IF table \in d[Catalog] THEN WhereId(d[table], id) ELSE {}

\* ---- the query translator: parse_surreal_query, repo_query ---------------

\* A dialect query, by its clauses.  verb: "select" (SELECT * FROM table),
\* "select_var" (SELECT * FROM $id), "create_content" (CREATE t CONTENT {..})
\* or "delete_where" (DELETE t WHERE ..); only: FROM ONLY; omit: the field
\* paths of the omit clause, each the sequence of its dot-separated parts;
\* fetch: "none", "inner" (a clause `fetch source` followed by from / order /
\* limit or a closing parenthesis) or "last" (the clause ends the query);
\* search: a call of fn::text_search ("text") or fn::vector_search ("vector"),
\* lines: the call is written on one line (1) or its arguments run over
\* several lines (2).
NoQuery ==
    [verb |-> "none", only |-> FALSE, omit |-> <<>>, fetch |-> "none",
     search |-> "none", lines |-> 1]

\* the variable mapping of the queries of the model
QueryVars == [id |-> "source_insight:1"]

\* the translated statement: kind is a marker, "select", "select_var" or
\* "delete"; rest is the dialect text left in the statement
Sql(kind, rest) == [kind |-> kind, rest |-> rest]

\* `fn::text_search\s*\((.*?)\)`: `.` does not match a line break
SearchFound(q, name) == q.search = name /\ q.lines = 1

\* the dialect text a translated statement still holds
Residue(q, fetch_found) ==
    (IF q.search # "none" THEN {q.search} ELSE {})
        \cup (IF q.fetch # "none" /\ ~fetch_found THEN {"fetch"} ELSE {})

\* parse_surreal_query(query_str, vars): the statement and the mapping,
\* which carries the directives under the reserved keys
ParseSurrealQuery(q, qvars) ==
    IF q.verb = "create_content"
    THEN [sql |-> Sql("__USE_REPO_CREATE__", {}), vars |-> qvars]
    ELSE IF q.verb = "delete_where"
    THEN [sql |-> Sql("delete", Residue(q, FALSE)
                                   \cup (IF q.omit # <<>> THEN {"omit"} ELSE {})),
          vars |-> qvars]
    ELSE LET omit_fields  == q.omit
             fetch_found  == q.fetch = "inner"
             fetch_fields == IF fetch_found THEN <<"source">> ELSE <<>>
             v1 == IF omit_fields # <<>> THEN Put(qvars, "__omit_fields__", omit_fields)
                   ELSE qvars
             v2 == IF fetch_fields # <<>> THEN Put(v1, "__fetch_fields__", fetch_fields)
                   ELSE v1
         IN  IF SearchFound(q, "text")
             THEN [sql |-> Sql("__USE_FTS__", {}), vars |-> qvars]
             ELSE IF SearchFound(q, "vector")
             THEN [sql |-> Sql("__USE_VECTOR_SEARCH__", {}), vars |-> qvars]
             ELSE [sql |-> Sql(q.verb, Residue(q, fetch_found)), vars |-> v2]

\* a value of a result row: a text s or a dict d of texts
Text(t) == [k |-> "text", s |-> t, d |-> [x \in {} |-> ""]]

Dict(d) == [k |-> "dict", s |-> "", d |-> d]

\* the records a fetch directive can resolve, by id
Store ==
    [x \in {"source:1"} |-> Dict([id |-> "source:1", title |-> "s", full_text |-> "long"])]

\* the rows of the table the queries of the model select from
InsightRows ==
    <<[id |-> Text("source_insight:1"), title |-> Text("t"),
       meta |-> Dict([a |-> "1", b |-> "2"]), source |-> Text("source:1")],
      [id |-> Text("source_insight:2"), title |-> Text("u"),
       meta |-> Text("plain"), source |-> Text("source:9")]>>

\* _apply_omit_fields for one field path: a plain field is popped; for a
\* nested one the parents must be dicts (the values of the model nest one
\* level deep, so a longer path never reaches a parent)
OmitPath(row, parts) ==
    IF Len(parts) = 1 THEN Pop(row, parts[1])
    ELSE IF Len(parts) = 2 /\ parts[1] \in DOMAIN row /\ row[parts[1]].k = "dict"
    THEN [row EXCEPT ![parts[1]].d = Pop(@, parts[2])]
    ELSE row

RECURSIVE ApplyOmitFields(_, _)
\* _apply_omit_fields(data, omit_fields)
ApplyOmitFields(row, omit_fields) ==
    IF omit_fields = <<>> THEN row
    ELSE ApplyOmitFields(OmitPath(row, Head(omit_fields)), Tail(omit_fields))

RECURSIVE ApplyFetchFields(_, _)
\* _apply_fetch_fields(data, fetch_fields): a field that holds the id of a
\* record that exists is replaced by the record (the follow-up repo_query of
\* a field is taken in the same step)
ApplyFetchFields(row, fetch_fields) ==
    IF fetch_fields = <<>> THEN row
    ELSE LET field == Head(fetch_fields)
             next  == IF field \in DOMAIN row /\ row[field].k = "text"
                         /\ row[field].s \in DOMAIN Store
                      THEN [row EXCEPT ![field] = Store[row[field].s]]
                      ELSE row
         IN  ApplyFetchFields(next, Tail(fetch_fields))

\* repo_query: `if omit_fields: ...` and then `if fetch_fields: ...`
PostProcess(rows, omit_fields, fetch_fields) ==
    [i \in DOMAIN rows |->
        ApplyFetchFields(ApplyOmitFields(rows[i], omit_fields), fetch_fields)]

\* the rows the statement selects: every row, or, after the rewrite of
\* SELECT * FROM :id to the table of the id's prefix, the row of that id
SelectRows(sql, qvars) ==
    IF sql.kind = "select_var"
    THEN SelectSeq(InsightRows, LAMBDA r : r["id"].s = qvars["id"])
    ELSE InsightRows

\* no repo_query call is being followed.  conn: the reader connection of the
\* call, "none", "query_only" or "writable"; readers: the reader connections
\* that are open; stored: the rows the table holds
IdleQry ==
    [pc |-> "off", q |-> NoQuery, vars |-> QueryVars, sql |-> Sql("none", {}),
     omit_fields |-> <<>>, fetch_fields |-> <<>>, opened |-> FALSE,
     executed |-> FALSE, bound |-> {}, ret |-> <<>>, out |-> "none", msg |-> "none",
     conn |-> "none", readers |-> 0, stored |-> InsightRows]

QryRaise(x, exc, msg) == [x EXCEPT !.pc = "done", !.out = exc, !.msg = msg]

\* repo_query(query_str, vars) up to `async with db_connection(read_only=True)`
QryParse ==
    /\ qry.pc = "input"
    /\ LET parsed == ParseSurrealQuery(qry.q, qry.vars)
           x == [qry EXCEPT
                   !.sql = parsed.sql,
                   !.omit_fields = IF "__omit_fields__" \in DOMAIN parsed.vars
                                   THEN parsed.vars["__omit_fields__"] ELSE <<>>,
                   !.fetch_fields = IF "__fetch_fields__" \in DOMAIN parsed.vars
                                    THEN parsed.vars["__fetch_fields__"] ELSE <<>>,
                   !.vars = Pop(Pop(parsed.vars, "__omit_fields__"), "__fetch_fields__")]
       IN  qry' = CASE parsed.sql.kind = "__USE_REPO_CREATE__" ->
                          QryRaise(x, "RuntimeError", "use repo_create")
                    [] parsed.sql.kind = "__USE_FTS__" ->
                          QryRaise(x, "NotImplementedError", "text_search")
                    [] parsed.sql.kind = "__USE_VECTOR_SEARCH__" ->
                          QryRaise(x, "NotImplementedError", "vector_search")
                    [] OTHER -> [x EXCEPT !.pc = "connect"]
    /\ UNCHANGED <<poolVars, repoVars, codec, issued>>

\* create_reader without `PRAGMA query_only=ON`
CreateReaderWritable == "writable"

\* get_reader_connection: create_reader opens a connection of its own for the
\* call and sets `PRAGMA query_only=ON` on it
CreateReader == "query_only"

\* a reader connection that is closed only when the read returned rows
CloseReaderOnSuccess(x) == IF x.out = "ok" THEN [x EXCEPT !.readers = @ - 1] ELSE x

\* db_connection: `finally: await asyncio.to_thread(conn.close)`
CloseReader(x) == [x EXCEPT !.readers = @ - 1]

\* db_connection(read_only=True): a reader connection is opened and handed to
\* the read, or get_reader_connection raises and hands out none
QryConnect(ok) ==
    /\ qry.pc = "connect"
    /\ qry' = IF ok THEN [qry EXCEPT !.pc = "execute", !.opened = TRUE,
                                     !.conn = CreateReader, !.readers = @ + 1]
              ELSE QryRaise([qry EXCEPT !.opened = TRUE], "OperationalError", "connect")
    /\ UNCHANGED <<poolVars, repoVars, codec, issued>>

\* conn.execute(sql, parsed_vars) on the reader connection and the
\* post-processing of the rows, to the end of the `async with` block: a
\* statement that still holds dialect text raises sqlite3.OperationalError,
\* and so does a statement that writes when the connection is query_only; on
\* a writable connection DELETE FROM t WHERE id = :id removes the row of the
\* id.  The follow-up lookups of a fetch directive are repo_query calls that
\* open and close a reader connection of their own.
QryExecute ==
    /\ qry.pc = "execute"
    /\ LET x == [qry EXCEPT !.executed = TRUE, !.bound = DOMAIN qry.vars]
           r == IF qry.sql.rest # {}
                    \/ (qry.sql.kind = "delete" /\ qry.conn = "query_only")
                THEN QryRaise(x, "RuntimeError", "operational error")
                ELSE IF qry.sql.kind = "delete"
                THEN [x EXCEPT !.pc = "done", !.out = "ok",
                               !.stored = SelectSeq(@, LAMBDA row :
                                              row["id"].s # qry.vars["id"])]
                ELSE [x EXCEPT !.pc = "done", !.out = "ok",
                               !.ret = PostProcess(SelectRows(qry.sql, qry.vars),
                                                   qry.omit_fields, qry.fetch_fields)]
       IN  qry' = CloseReader(r)
    /\ UNCHANGED <<poolVars, repoVars, codec, issued>>

\* ---- the repository facade: calls ---------------------------------------

\* A facade call of a client.  op is the function called, via the function
\* whose body is running (repo_upsert and repo_insert run repo_create /
\* repo_update), n the number of calls the client has made.  rid is the
\* record id the body works on, arg the table argument of repo_update (table
\* is the table its statement names), todo the rows repo_insert has not finished
\* with, made the ids of the rows it has appended to its results, res the
\* outcome the write loop stored in the future of the call's write,
\* ret the rows returned, out "ok" or the type of the exception raised, cause
\* its __cause__, hit the exception the failing statement or check raised,
\* args the arguments of a call of the job tracker.
IdleCall ==
    [pc |-> "idle", op |-> "none", via |-> "none", n |-> 0, table |-> "", arg |-> "",
     id |-> NoId, args |-> <<>>,
     data |-> NoData, rid |-> NoId, todo |-> <<>>, ignore |-> FALSE, res |-> "none",
     ret |-> {}, made |-> {}, out |-> "none", cause |-> "none", hit |-> "none"]

EmptyQueue == [q |-> <<>>, busy |-> FALSE]

\* execute_write: the statement joins the write queue
Enq(q, stmt, c, n) == [q EXCEPT !.q = Append(@, [stmt |-> stmt, by |-> c, n |-> n])]

Native == {"IntegrityError", "OperationalError"}

\* the exception that leaves the function `via` when exc is raised in it:
\* inside its try block every handler raises RuntimeError(...) from exc
InnerWrap(exc, intry) ==
    IF intry THEN [type |-> "RuntimeError", cause |-> exc]
             ELSE [type |-> exc, cause |-> "none"]

FinishOk(k, rows) ==
    [k EXCEPT !.pc = "done", !.out = "ok", !.ret = rows, !.res = "none"]

\* exception e leaves the function `via` of call k and reaches the handlers
\* of the function called
FinishFailed(k, e) ==
    LET root == IF e.cause = "none" THEN e.type ELSE e.cause
        done == [k EXCEPT !.pc = "done", !.res = "none", !.ret = {}, !.hit = root,
                          !.todo = IF @ = <<>> THEN @ ELSE Tail(@)]
    IN  IF k.op = "upsert" /\ k.via # "upsert"
        THEN [done EXCEPT !.out = "RuntimeError", !.cause = e.type]
        ELSE IF k.op = "insert"
        THEN IF k.ignore THEN [done EXCEPT !.out = "ok"]
                         ELSE [done EXCEPT !.out = "RuntimeError", !.cause = e.type]
        ELSE [done EXCEPT !.out = e.type, !.cause = e.cause]

\* repo_create(table, item) up to `await pool.execute_write(...)`
CreateBegin(c, k0, item, q, nt) ==
    LET k == [k0 EXCEPT !.via = "create"]
    IN  IF ~IsIdentifier(k.table)
        THEN [k |-> FinishFailed(k, InnerWrap("ValueError", FALSE)), q |-> q, nt |-> nt]
        ELSE LET rid  == GenerateId(k.table, nt)
                 data == Put(Put(Put(Pop(item, "id"), "id", rid), "created", clock),
                             "updated", clock)
                 ins  == PrepareRecord(data)
             IN  IF ~ValidateKeys(ins)
                 THEN [k |-> FinishFailed(k, InnerWrap("ValueError", TRUE)),
                       q |-> q, nt |-> nt + 1]
                 ELSE [k |-> [k EXCEPT !.pc = "write", !.rid = rid, !.res = "none"],
                       q |-> Enq(q, [kind |-> "insert", table |-> k.table,
                                     data |-> ins, id |-> rid], c, k.n),
                       nt |-> nt + 1]

\* an update that keeps the id of the patch
UpdatePatchKeepId(data) == data

\* repo_update: data.pop("id", None)
UpdatePatch(data) == Pop(data, "id")

\* repo_update(table, id, data) up to `await pool.execute_write(...)`
UpdateBegin(c, k0, table, id, data, q, nt) ==
    LET k     == [k0 EXCEPT !.via = "update"]
        tbl   == IF id.colon /\ id.pre # table THEN id.pre ELSE table
        rid   == IF id.colon THEN id ELSE MkId(table, id.tok)
        upd   == PrepareRecord(Put(UpdatePatch(data), "updated", clock))
    IN  IF ~IsIdentifier(tbl) \/ ~ValidateKeys(upd)
        THEN [k |-> FinishFailed(k, InnerWrap("ValueError", TRUE)), q |-> q, nt |-> nt]
        ELSE [k |-> [k EXCEPT !.pc = "write", !.rid = rid, !.table = tbl, !.res = "none"],
              q |-> Enq(q, [kind |-> "update", table |-> tbl, data |-> upd, id |-> rid],
                        c, k.n),
              nt |-> nt]

\* repo_relate(source, relationship, target, data) up to execute_write;
\* k.table is the relationship, k.id the source, k.rid the target
RelateBegin(c, k, q, nt) ==
    IF ~IsIdentifier(k.table)
    THEN [k |-> FinishFailed(k, InnerWrap("ValueError", FALSE)), q |-> q, nt |-> nt]
    ELSE LET relation_id == GenerateId(k.table, nt)
             rel_data == Merge([x \in {"id", "in", "out", "created", "updated"} |->
                                   CASE x = "id"  -> relation_id
                                     [] x = "in"  -> k.id
                                     [] x = "out" -> k.rid
                                     [] OTHER     -> clock],
                               k.data)
         IN  IF ~ValidateKeys(rel_data)
             THEN [k |-> FinishFailed(k, InnerWrap("ValueError", TRUE)),
                   q |-> q, nt |-> nt + 1]
             ELSE [k |-> [k EXCEPT !.pc = "write", !.rid = relation_id, !.res = "none"],
                   q |-> Enq(q, [kind |-> "replace", table |-> k.table,
                                 data |-> rel_data, id |-> relation_id], c, k.n),
                   nt |-> nt + 1]

\* repo_delete(record_id) up to execute_write
DeleteBegin(c, k, q, nt) ==
    IF ~k.id.colon \/ ~IsIdentifier(k.id.pre)
    THEN [k |-> FinishFailed(k, InnerWrap("ValueError", TRUE)), q |-> q, nt |-> nt]
    ELSE [k |-> [k EXCEPT !.pc = "write", !.rid = k.id, !.table = k.id.pre,
                          !.res = "none"],
          q |-> Enq(q, [kind |-> "delete", table |-> k.id.pre, data |-> NoData,
                        id |-> k.id], c, k.n),
          nt |-> nt]

\* repo_ensure_table(table, schema_sql) up to execute_write
EnsureBegin(c, k, q, nt) ==
    IF ~IsIdentifier(k.table)
    THEN [k |-> FinishFailed(k, InnerWrap("ValueError", TRUE)), q |-> q, nt |-> nt]
    ELSE [k |-> [k EXCEPT !.pc = "write", !.res = "none"],
          q |-> Enq(q, [kind |-> "ddl", table |-> k.table, data |-> NoData,
                        id |-> NoId], c, k.n),
          nt |-> nt]

\* repo_upsert(table, id, data) up to the point lookup of the id
\* (add_timestamp presets data["updated"], which repo_update and repo_create
\* overwrite)
UpsertBegin(c, k, q, nt) ==
    IF ~IsIdentifier(k.table)
    THEN [k |-> FinishFailed(k, InnerWrap("ValueError", FALSE)), q |-> q, nt |-> nt]
    ELSE LET record_id == IF k.id # NoId THEN k.id ELSE GenerateId(k.table, nt)
         IN  [k |-> [k EXCEPT !.pc = "exists", !.rid = record_id,
                              !.data = Put(Pop(k.data, "id"), "id", record_id)],
              q |-> q,
              nt |-> IF k.id # NoId THEN nt ELSE nt + 1]

\* repo_upsert after the lookup: repo_update when the row exists, else
\* repo_create with created / updated filled in
UpsertAfterLookup(c, k, exists, q, nt) ==
    IF exists
    THEN UpdateBegin(c, k, k.table, k.rid, k.data, q, nt)
    ELSE LET d1 == IF "created" \in DOMAIN k.data THEN k.data
                   ELSE Put(k.data, "created", clock)
             d2 == IF "updated" \in DOMAIN d1 THEN d1 ELSE Put(d1, "updated", clock)
         IN  CreateBegin(c, k, d2, q, nt)

\* repo_insert(table, rows, ignore_duplicates): the loop reaches the next row
InsertNext(c, k, q, nt) ==
    IF k.todo = <<>>
    THEN [k |-> FinishOk(k, k.ret), q |-> q, nt |-> nt]
    ELSE CreateBegin(c, k, Head(k.todo), q, nt)

\* an exception leaves the repo_create of a row of repo_insert: `except
\* sqlite3.IntegrityError` skips the row when ignore_duplicates is set; every
\* other exception, and every exception of the other functions, ends the call
BodyFailed(c, k, e, q, nt) ==
    IF k.op = "insert" /\ e.type = "IntegrityError" /\ k.ignore
    THEN InsertNext(c, [k EXCEPT !.todo = Tail(@), !.hit = "IntegrityError"], q, nt)
    ELSE [k |-> FinishFailed(k, e), q |-> q, nt |-> nt]

\* ---- the command / job tracker -------------------------------------------

\* json.dumps(d) of the dicts the tracker stores: the input of a job, the
\* result of a successful and of a failed run, the empty dict
JobDumps(d) ==
    CASE d = "input"   -> "json:input"
      [] d = "success" -> "json:success"
      [] d = "failure" -> "json:failure"
      [] d = "{}"      -> "json:{}"

\* get_command_status: `if result_data and isinstance(result_data, str)`
\* json.loads(result_data), the text itself on JSONDecodeError
JobLoads(text) ==
    CASE text = "null"         -> "null"
      [] text = ""             -> ""
      [] text = "json:input"   -> "input"
      [] text = "json:success" -> "success"
      [] text = "json:failure" -> "failure"
      [] text = "json:{}"      -> "{}"
      [] OTHER                 -> text

\* a command record that is created as already started
CommandRecordStarted(app, command_name, input_data) ==
    [k \in CommandColumns \ {"id"} |->
        CASE k = "app"      -> app
          [] k = "command"  -> command_name
          [] k = "status"   -> "running"
          [] k = "input"    -> JobDumps(input_data)
          [] k = "progress" -> 10
          [] k \in {"created", "updated"} -> clock
          [] OTHER          -> "null"]

\* create_command_record: command_record
CommandRecord(app, command_name, input_data) ==
    [k \in CommandColumns \ {"id"} |->
        CASE k = "app"      -> app
          [] k = "command"  -> command_name
          [] k = "status"   -> "queued"
          [] k = "input"    -> JobDumps(input_data)
          [] k = "progress" -> 0
          [] k \in {"created", "updated"} -> clock
          [] OTHER          -> "null"]

\* an update_data that names every optional argument, None or not
UpdateDataAll(status, progress, result, error_message) ==
    [k \in {"status", "updated", "progress", "result", "error_message"} |->
        CASE k = "status"   -> status
          [] k = "updated"  -> clock
          [] k = "progress" -> progress
          [] k = "result"   -> IF result = "null" THEN "null" ELSE JobDumps(result)
          [] OTHER          -> error_message]

\* update_command_status: update_data holds status, updated and the optional
\* arguments that are not None
UpdateData(status, progress, result, error_message) ==
    LET given == {"status", "updated"}
                    \cup (IF progress # NullOf("progress") THEN {"progress"} ELSE {})
                    \cup (IF result # "null" THEN {"result"} ELSE {})
                    \cup (IF error_message # "null" THEN {"error_message"} ELSE {})
    IN  [k \in given |-> UpdateDataAll(status, progress, result, error_message)[k]]

\* get_command_status: the dict returned for a row
CommandStatus(row) ==
    [k \in {"job_id", "status", "result", "error_message", "created", "updated",
            "progress"} |->
        CASE k = "job_id" -> row["id"]
          [] k = "result" -> JobLoads(row["result"])
          [] OTHER        -> row[k]]

\* ---- the repository facade: steps ---------------------------------------

\* the arguments the clients of the model pass
PlainData == [name |-> 1]

IdData == [id |-> MkId("note", 7), name |-> 2]

UkeyData == [ukey |-> 1]

BadKeyData == [k \in {"x;y"} |-> 1]

NoColumnData == [col_2 |-> 1]

DataArgs == {PlainData, IdData, UkeyData, BadKeyData, NoColumnData}

\* the id of the stored row, an id no row has, and the ids generated so far
IdArgs == {MkId("note", t) : t \in 1..ntok} \cup {MkId("note", 9)}

\* a client calls a facade function: k is the call with its arguments, r what
\* the function has done when it reaches its first await
CallsMade == Cardinality({x \in Clients \X (1..MaxCalls) : x[2] <= call[x[1]].n})

StartGuard(c) == call[c].pc \in {"idle", "done"} /\ CallsMade < MaxCalls

NewCall(c, op) == [IdleCall EXCEPT !.op = op, !.via = op, !.n = call[c].n + 1]

StartCall(c, r) ==
    /\ hist' = [hist EXCEPT ![c] = IF call[c].pc = "done" THEN call[c] ELSE @]
    /\ call' = [call EXCEPT ![c] = r.k]
    /\ wq' = r.q
    /\ ntok' = r.nt
    /\ UNCHANGED <<poolVars, codec, issued, qry, db, clock>>

Create(c, table, data) ==
    /\ StartGuard(c)
    /\ StartCall(c, CreateBegin(c, [NewCall(c, "create") EXCEPT !.table = table,
                                       !.data = data], data, wq, ntok))

Update(c, table, id, data) ==
    /\ StartGuard(c)
    /\ StartCall(c, UpdateBegin(c, [NewCall(c, "update") EXCEPT !.table = table,
                                       !.arg = table, !.id = id, !.data = data],
                                table, id, data, wq, ntok))

Upsert(c, table, id, data) ==
    /\ StartGuard(c)
    /\ StartCall(c, UpsertBegin(c, [NewCall(c, "upsert") EXCEPT !.table = table,
                                       !.id = id, !.data = data], wq, ntok))

Delete(c, id) ==
    /\ StartGuard(c)
    /\ StartCall(c, DeleteBegin(c, [NewCall(c, "delete") EXCEPT !.id = id], wq, ntok))

Relate(c, source, relationship, target, data) ==
    /\ StartGuard(c)
    /\ StartCall(c, RelateBegin(c, [NewCall(c, "relate") EXCEPT !.table = relationship,
                                       !.id = source, !.rid = target, !.data = data,
                                       !.args = <<source, target>>],
                                wq, ntok))

Insert(c, table, rows, ignore_duplicates) ==
    /\ StartGuard(c)
    /\ StartCall(c, InsertNext(c, [NewCall(c, "insert") EXCEPT !.table = table,
                                      !.todo = rows, !.ignore = ignore_duplicates],
                               wq, ntok))

EnsureTable(c, table) ==
    /\ StartGuard(c)
    /\ StartCall(c, EnsureBegin(c, [NewCall(c, "ensure_table") EXCEPT !.table = table],
                                wq, ntok))

\* CommandTableService.create_command_record(app, command_name, input_data) up
\* to the execute_write of ensure_table; repo_create follows when it returns
CreateCommandRecord(c, app, command_name, input_data) ==
    /\ StartGuard(c)
    /\ StartCall(c, EnsureBegin(c, [NewCall(c, "create_command_record") EXCEPT
                                       !.via = "ensure_table", !.table = "command",
                                       !.args = <<app, command_name, input_data>>,
                                       !.data = CommandRecord(app, command_name,
                                                              input_data)],
                                wq, ntok))

\* CommandTableService.update_command_status(command_id, status, progress,
\* result, error_message): repo_update("command", command_id, update_data)
UpdateCommandStatus(c, command_id, status, progress, result, error_message) ==
    /\ StartGuard(c)
    /\ LET update_data == UpdateData(status, progress, result, error_message)
       IN  StartCall(c, UpdateBegin(c, [NewCall(c, "update_command_status") EXCEPT
                                           !.table = "command", !.arg = "command",
                                           !.id = command_id, !.data = update_data,
                                           !.args = <<status, progress, result,
                                                      error_message>>],
                                    "command", command_id, update_data, wq, ntok))

\* CommandTableService.get_command_status(command_id):
\* repo_query("SELECT * FROM command WHERE id = $command_id", ...) starts to
\* open a reader connection
GetCommandStatus(c, command_id) ==
    /\ StartGuard(c)
    /\ StartCall(c, [k |-> [NewCall(c, "get_command_status") EXCEPT !.via = "query",
                               !.table = "command", !.id = command_id,
                               !.rid = command_id, !.pc = "read"],
                     q |-> wq, nt |-> ntok])

\* a lookup that always reads the note table
LookupTableFixed(sql, record_id) == "note"

\* repo_query: the statement SELECT * FROM :var is rewritten to a point
\* lookup in the table named by the prefix of the record id; without a
\* prefix the statement is left as it is and names no table
LookupTable(sql, record_id) ==
    IF sql.kind = "select_var" /\ record_id.colon THEN record_id.pre ELSE ""

\* repo_query("SELECT * FROM [ONLY] $id", {"id": id}) up to the opening of the
\* reader connection
QueryById(c, id, only) ==
    /\ StartGuard(c)
    /\ LET q == [NoQuery EXCEPT !.verb = "select_var", !.only = only]
           parsed == ParseSurrealQuery(q, [id |-> id])
       IN  StartCall(c, [k |-> [NewCall(c, "query") EXCEPT
                                  !.table = LookupTable(parsed.sql, parsed.vars["id"]),
                                  !.id = id, !.rid = id, !.pc = "read", !.args = <<q>>],
                         q |-> wq, nt |-> ntok])

\* a query that is handed to the write queue
QueryThroughQueue(c, id) ==
    /\ StartGuard(c)
    /\ StartCall(c, [k |-> [NewCall(c, "query") EXCEPT !.table = "note", !.id = id,
                               !.rid = id, !.pc = "write"],
                     q |-> Enq(wq, [kind |-> "ddl", table |-> "note", data |-> NoData,
                                    id |-> id], c, call[c].n + 1),
                     nt |-> ntok])

\* repo_query("SELECT * FROM note WHERE id = :id", {"id": id}): the translator
\* leaves the statement as it is and db_connection(read_only=True) starts to
\* open a reader connection
Query(c, id) ==
    /\ StartGuard(c)
    /\ StartCall(c, [k |-> [NewCall(c, "query") EXCEPT !.table = "note", !.id = id,
                               !.rid = id, !.pc = "read"],
                     q |-> wq, nt |-> ntok])

\* the write loop takes the oldest statement off the queue and hands it to a
\* thread
RepoWriteGet ==
    /\ wq.q # <<>>
    /\ ~wq.busy
    /\ wq' = [wq EXCEPT !.busy = TRUE]
    /\ UNCHANGED <<poolVars, codec, issued, qry, db, call, hist, clock, ntok>>

\* the statement has run: its outcome is stored in the future of the call
\* that is still waiting for it
RepoWriteDone ==
    /\ wq.busy
    /\ LET e == Head(wq.q)
           x == ExecStmt(db, e.stmt)
       IN  /\ db' = x.db
           /\ wq' = [q |-> Tail(wq.q), busy |-> FALSE]
           /\ call' = IF call[e.by].pc = "write" /\ call[e.by].n = e.n
                      THEN [call EXCEPT ![e.by].res = x.res]
                      ELSE call
    /\ UNCHANGED <<poolVars, codec, issued, qry, hist, clock, ntok>>

FinishStep(c, r) ==
    /\ call' = [call EXCEPT ![c] = r.k]
    /\ wq' = r.q
    /\ ntok' = r.nt
    /\ UNCHANGED <<poolVars, codec, issued, qry, db, hist, clock>>

\* `await pool.execute_write(...)` returns or raises what the statement raised
CallWriteDone(c) ==
    /\ call[c].pc = "write"
    /\ call[c].res # "none"
    /\ LET k == call[c]
       IN  FinishStep(c,
             IF k.res = "ok"
             THEN IF k.op = "create_command_record" /\ k.via = "ensure_table"
                  THEN CreateBegin(c, k, k.data, wq, ntok)
                  ELSE [k |-> IF k.via \in {"delete", "ensure_table"}
                              THEN FinishOk(k, {})
                              ELSE [k EXCEPT !.pc = "read", !.res = "none"],
                        q |-> wq, nt |-> ntok]
             ELSE BodyFailed(c, k, InnerWrap(k.res, TRUE), wq, ntok))

\* the 30 s of execute_write elapse: RuntimeError("Database write operation
\* timed out"); the statement stays in the queue
CallWriteTimeout(c) ==
    /\ call[c].pc = "write"
    /\ call[c].res = "none"
    /\ FinishStep(c, BodyFailed(c, call[c], InnerWrap("RuntimeError", TRUE), wq, ntok))

\* a read on a fresh reader connection ends: the connection could not be
\* opened ("acquire"), the SELECT raised ("execute"), or the row was fetched
CallReadDone(c, outcome) ==
    /\ call[c].pc \in {"exists", "read"}
    /\ LET k    == call[c]
           eff  == IF outcome = "ok" /\ k.table \notin db[Catalog] THEN "execute" ELSE outcome
           rows == {ReadRecord(r) : r \in SelectById(db, k.table, k.rid)}
       IN  FinishStep(c,
             IF eff # "ok"
             THEN BodyFailed(c, k, InnerWrap("OperationalError",
                                       ~(k.via = "query" /\ eff = "acquire")), wq, ntok)
             ELSE IF k.pc = "exists"
             THEN UpsertAfterLookup(c, k, rows # {}, wq, ntok)
             ELSE IF k.via = "create"
             THEN IF rows = {}
                  THEN BodyFailed(c, k, InnerWrap("RuntimeError", TRUE), wq, ntok)
                  ELSE IF k.op = "insert"
                  THEN InsertNext(c, [k EXCEPT !.ret = @ \cup rows,
                                         !.made = @ \cup {k.rid},
                                         !.todo = Tail(@)], wq, ntok)
                  ELSE [k |-> FinishOk(k, rows), q |-> wq, nt |-> ntok]
             ELSE IF k.op = "get_command_status"
             THEN [k |-> IF rows = {}
                         THEN FinishFailed(k, InnerWrap("ValueError", FALSE))
                         ELSE FinishOk(k, {CommandStatus(r) : r \in rows}),
                   q |-> wq, nt |-> ntok]
             ELSE [k |-> FinishOk(k, rows), q |-> wq, nt |-> ntok])

\* time passes
Tick ==
    /\ clock < MaxClock
    /\ clock' = clock + 1
    /\ UNCHANGED <<poolVars, codec, issued, qry, db, call, hist, wq, ntok>>

\* ---- the field normalization: steps ---------------------------------------

IdleCodec == [pc |-> "off", key |-> "", val |-> PyNone, row |-> EmptyDict, out |-> EmptyDict]

\* the columns of the table the record with the normalized fields is stored in
CodecColumns == JsonWriteKeys \cup AssetColumns \cup BoolKeys \cup {"title"}

\* what sqlite3 stores for a bound parameter: True / False are the ints 1 / 0
Bind(val) == IF val.t = "bool" THEN PyInt(IF Truthy(val) THEN "i:1" ELSE "i:0") ELSE val

\* repo_create with data {key: val}: the INSERT of the prepared columns; a
\* list or dict that was not encoded cannot be bound, and a key that is no
\* column fails the statement
CodecCreate ==
    /\ codec.pc = "input"
    /\ LET prepared == PrepareDataForInsert([k \in {codec.key} |-> codec.val])
       IN  codec' = IF \/ ~(DOMAIN prepared \subseteq CodecColumns)
                       \/ \E k \in DOMAIN prepared : prepared[k].t \in {"list", "dict", "asset"}
                    THEN [codec EXCEPT !.pc = "failed"]
                    ELSE [codec EXCEPT !.pc = "stored",
                             !.row = [col \in CodecColumns |->
                                         IF col \in DOMAIN prepared THEN Bind(prepared[col])
                                                                    ELSE PyNone]]
    /\ UNCHANGED <<poolVars, repoVars, issued, qry>>

\* the record is re-read: _row_to_dict of the stored row
CodecRead ==
    /\ codec.pc = "stored"
    /\ codec' = [codec EXCEPT !.pc = "read", !.out = RowToDict(codec.row)]
    /\ UNCHANGED <<poolVars, repoVars, issued, qry>>

\* ---- initial values of the repository state -----------------------------

\* the database holds one note
InitDb ==
    [t \in Tables \cup {Catalog} |->
        CASE t = "note"  -> {RowOf("note", [id |-> MkId("note", 1), created |-> 1,
                                           updated |-> 1, name |-> 1, ukey |-> 1])}
          [] t = Catalog -> {"note", "reference"}
          [] OTHER       -> {}]

\* no facade call has been made
RepoIdle ==
    /\ db = InitDb
    /\ call = [c \in Clients |-> IdleCall]
    /\ hist = [c \in Clients |-> IdleCall]
    /\ wq = EmptyQueue
    /\ clock = 1
    /\ ntok = 1

\* ---- specification of the pool -------------------------------------------

Init ==
    /\ registry = None
    /\ pool = <<>>
    /\ tasks = <<>>
    /\ ops = <<>>
    /\ executing = {}
    /\ caller = [c \in Procs |-> IdleCaller]
    /\ closer = IdleCloser
    /\ curLoop = 1
    /\ commandTable = FALSE
    /\ job = AbsentJob
    /\ wf = OffWf
    /\ RepoIdle
    /\ codec = IdleCodec
    /\ issued = <<>>
    /\ qry = IdleQry

WriterNext ==
    \/ \E t \in DOMAIN tasks : WriterTop(t)
    \/ \E t \in DOMAIN tasks : WriterGet(t)
    \/ \E t \in DOMAIN tasks : WriterTimeout(t)
    \/ \E t \in DOMAIN tasks, ok \in BOOLEAN : WriterExecDone(t, ok)
    \/ \E e \in executing, ok \in BOOLEAN : OrphanThreadDone(e, ok)

CloseNext ==
    \/ CloseStart
    \/ CloseJoined
    \/ CloseCheckpointDone
    \/ CloseConnClosed

\* concurrent write requests, the write loops, shutdown and runtime restart
PoolNext ==
    \/ \E c \in Callers : CallExisting(c, "write")
    \/ \E c \in Callers : CallNew(c, "write")
    \/ \E c \in Callers : InitConnCreated(c)
    \/ \E c \in Callers : InitSchemaDone(c)
    \/ \E c \in Callers : CallerFutureDone(c)
    \/ \E c \in Callers : CallerTimeout(c)
    \/ WriterNext
    \/ CloseNext
    \/ RestartRuntime

SpecPool == Init /\ [][PoolNext]_vars

\* the wait of execute_write ends: the event loop resumes the caller when its
\* future is resolved, and the timer of wait_for(future, 30.0) fires
FairSpecPool ==
    SpecPool /\ \A c \in Callers : WF_vars(CallerFutureDone(c) \/ CallerTimeout(c))

\* the same, with the job-table bootstrap running beside the write requests
BootNext ==
    \/ CallExisting(Tracker, "bootstrap")
    \/ CallNew(Tracker, "bootstrap")
    \/ InitConnCreated(Tracker)
    \/ InitSchemaDone(Tracker)
    \/ BootExecDone(Tracker)
    \/ BootCommitDone(Tracker)

Next ==
    \/ PoolNext
    \/ BootNext

Spec == Init /\ [][Next]_vars

\* the pool with tasks that await initialize() themselves, beside the write
\* requests, the write loops, shutdown and runtime restart
InitNext ==
    \/ \E c \in Callers : Initialize(c)
    \/ PoolNext

SpecInit == Init /\ [][InitNext]_vars

\* ---- specification of the workflow --------------------------------------

\* the state in which process_source is invoked: the pool is Ready and
\* create_command_record has stored the job row
ReadyPool ==
    [initialized |-> TRUE, closed |-> FALSE, conn |-> "open", conns |-> 1, loop |-> 1,
     queue |-> <<>>, unfinished |-> 0, task |-> 1]

QueuedJob == [status |-> "queued", progress |-> 0, result |-> "null", error |-> "null"]

InitJob ==
    /\ registry = 1
    /\ pool = <<ReadyPool>>
    /\ tasks = <<[pool |-> 1, pc |-> "get", entry |-> NoEntry]>>
    /\ ops = <<>>
    /\ executing = {}
    /\ caller = [c \in Procs |-> IdleCaller]
    /\ closer = IdleCloser
    /\ curLoop = 1
    /\ commandTable = TRUE
    /\ job = QueuedJob
    /\ wf = Goto("U10")
    /\ RepoIdle
    /\ codec = IdleCodec
    /\ issued = <<>>
    /\ qry = IdleQry

JobNext ==
    \/ WfCallUpdate
    \/ WfFutureDone
    \/ WfTimeout
    \/ \E ok \in BOOLEAN : WfReadBack(ok)
    \/ \E outcome \in {"ok", "msg", "empty"} : WfExternal(outcome)
    \/ \E t \in DOMAIN tasks : WriterGet(t)
    \/ \E t \in DOMAIN tasks, ok \in BOOLEAN : WriterExecDone(t, ok)

SpecJob == InitJob /\ [][JobNext]_vars

\* ---- specification of the repository facade -----------------------------

\* the pool is Ready: initialize() has run and the write loop waits on the
\* empty queue
InitReady ==
    /\ registry = 1
    /\ pool = <<ReadyPool>>
    /\ tasks = <<[pool |-> 1, pc |-> "get", entry |-> NoEntry]>>
    /\ ops = <<>>
    /\ executing = {}
    /\ caller = [c \in Procs |-> IdleCaller]
    /\ closer = IdleCloser
    /\ curLoop = 1
    /\ commandTable = FALSE
    /\ job = AbsentJob
    /\ wf = OffWf

InitRepo ==
    /\ InitReady
    /\ RepoIdle
    /\ codec = IdleCodec
    /\ issued = <<>>
    /\ qry = IdleQry

\* the steps every facade call goes through
CallNext ==
    \/ RepoWriteGet
    \/ RepoWriteDone
    \/ \E c \in Clients : CallWriteDone(c)
    \/ \E c \in Clients : CallWriteTimeout(c)
    \/ \E c \in Clients, outcome \in {"ok", "acquire", "execute"} : CallReadDone(c, outcome)
    \/ Tick

\* the calls the clients of the model make
CreateArgs ==
    ({"note"} \X DataArgs) \cup {<<"x;y", PlainData>>}

UpdateArgs ==
    ({"note", "reference"} \X (IdArgs \cup {BareId(1)}) \X {PlainData})
        \cup ({"note", "reference"} \X {MkId("note", 1)} \X {IdData})
        \cup {<<"note", MkId("note", 1), BadKeyData>>}

RelateArgs ==
    ({"reference"} \X {NoData, IdData, BadKeyData}) \cup {<<"x;y", NoData>>}

UpsertArgs ==
    ({"note"} \X {MkId("note", 1), MkId("note", 9), NoId} \X {PlainData})
        \cup {<<"note", MkId("note", 1), BadKeyData>>, <<"x;y", NoId, PlainData>>}

DeleteArgs == IdArgs \cup {BareId(1), MkId("x;y", 1)}

InsertArgs == {<<UkeyData, PlainData>>, <<PlainData, UkeyData>>}

RepoNext ==
    \/ \E c \in Clients, a \in CreateArgs : Create(c, a[1], a[2])
    \/ \E c \in Clients, a \in UpdateArgs : Update(c, a[1], a[2], a[3])
    \/ \E c \in Clients, a \in UpsertArgs : Upsert(c, a[1], a[2], a[3])
    \/ \E c \in Clients, id \in DeleteArgs : Delete(c, id)
    \/ \E c \in Clients, a \in RelateArgs :
          Relate(c, MkId("note", 1), a[1], MkId("note", 1), a[2])
    \/ \E c \in Clients, rows \in InsertArgs, ignore_duplicates \in BOOLEAN :
          Insert(c, "note", rows, ignore_duplicates)
    \/ \E c \in Clients, table \in {"command", "1st"} : EnsureTable(c, table)
    \/ \E c \in Clients, id \in IdArgs : Query(c, id)
    \/ CallNext

SpecRepo == InitRepo /\ [][RepoNext]_vars

\* N concurrent create calls on one table
CreatesNext ==
    \/ \E c \in Clients, data \in {PlainData, IdData} : Create(c, "note", data)
    \/ CallNext

SpecCreates == InitRepo /\ [][CreatesNext]_vars

\* ---- specification of the job tracker -----------------------------------

\* a job row stored by an earlier run
StoredJob ==
    RowOf("command", [id |-> MkId("command", 1), app |-> "open_notebook",
                      command |-> "process_source", status |-> "running",
                      input |-> JobDumps("input"), result |-> JobDumps("failure"),
                      error_message |-> "stored", progress |-> 50,
                      created |-> 1, updated |-> 1])

\* the database of an earlier run: the command table exists and holds a job
JobDb ==
    [InitDb EXCEPT ![Catalog] = @ \cup {"command"}, !["command"] = {StoredJob}]

\* the tracker starts on a database without a command table or on the
\* database of an earlier run
InitTracker ==
    /\ InitReady
    /\ db \in {InitDb, JobDb}
    /\ call = [c \in Clients |-> IdleCall]
    /\ hist = [c \in Clients |-> IdleCall]
    /\ wq = EmptyQueue
    /\ clock = 1
    /\ ntok = 1
    /\ codec = IdleCodec
    /\ issued = <<>>
    /\ qry = IdleQry

JobIdArgs == {MkId("command", t) : t \in 1..ntok} \cup {MkId("command", 9)}

\* status, progress, result and error_message of update_command_status; an
\* argument left out is None
StatusArgs ==
    {<<"running", NullOf("progress"), "null", "null">>,
     <<"running", 75, "null", "null">>,
     <<"running", 0, "null", "">>,
     <<"completed", 100, "success", "null">>,
     <<"completed", NullOf("progress"), "success", "null">>,
     <<"failed", NullOf("progress"), "failure", "boom">>}

\* the calls of the tracker on a healthy engine: a read fails only when its
\* statement does
TrackerNext ==
    \/ \E c \in Clients : CreateCommandRecord(c, "open_notebook", "process_source", "input")
    \/ \E c \in Clients, id \in JobIdArgs, a \in StatusArgs :
          UpdateCommandStatus(c, id, a[1], a[2], a[3], a[4])
    \/ \E c \in Clients, id \in JobIdArgs : GetCommandStatus(c, id)
    \/ \E c \in Clients : EnsureTable(c, "command")
    \/ \E c \in Clients, id \in JobIdArgs : Delete(c, id)
    \/ RepoWriteGet
    \/ RepoWriteDone
    \/ \E c \in Clients : CallWriteDone(c)
    \/ \E c \in Clients : CallWriteTimeout(c)
    \/ \E c \in Clients : CallReadDone(c, "ok")
    \/ Tick

SpecTracker == InitTracker /\ [][TrackerNext]_vars

\* ---- specification of the lookup by record id ------------------------------

LookupIdArgs ==
    {MkId(table, t) : table \in {"note", "reference"}, t \in 1..(ntok + 1)}
        \cup {BareId(1)}

\* records are created and looked up by id on a healthy engine
LookupNext ==
    \/ \E c \in Clients, table \in {"note", "reference"}, data \in {PlainData, IdData} :
          Create(c, table, data)
    \/ \E c \in Clients, id \in LookupIdArgs, only \in BOOLEAN : QueryById(c, id, only)
    \/ RepoWriteGet
    \/ RepoWriteDone
    \/ \E c \in Clients : CallWriteDone(c)
    \/ \E c \in Clients : CallWriteTimeout(c)
    \/ \E c \in Clients : CallReadDone(c, "ok")
    \/ Tick

SpecLookup == InitRepo /\ [][LookupNext]_vars

\* ids whose prefix is a table name, is not an identifier, or is missing
IdentIdArgs == {MkId("note", 1), MkId("x;y", 1), MkId("1st", 1), BareId(1)}

\* the facade called with table names and ids from outside, on a healthy
\* engine
IdentNext ==
    \/ \E c \in Clients, a \in CreateArgs : Create(c, a[1], a[2])
    \/ \E c \in Clients, table \in {"note", "x;y"}, id \in IdentIdArgs :
          Update(c, table, id, PlainData)
    \/ \E c \in Clients, id \in IdentIdArgs : Delete(c, id)
    \/ \E c \in Clients, id \in IdentIdArgs, only \in BOOLEAN : QueryById(c, id, only)
    \/ RepoWriteGet
    \/ RepoWriteDone
    \/ \E c \in Clients : CallWriteDone(c)
    \/ \E c \in Clients : CallWriteTimeout(c)
    \/ \E c \in Clients : CallReadDone(c, "ok")
    \/ Tick

SpecIdent == InitRepo /\ [][IdentNext]_vars

\* ---- specification of the query translator -------------------------------

OmitArgs ==
    {<<>>, <<<<"title">>>>, <<<<"meta", "a">>, <<"nope">>>>,
     <<<<"source", "full_text">>>>, <<<<"title", "x">>, <<"meta", "b">>>>}

Queries ==
    {q \in [verb : {"select", "select_var", "create_content", "delete_where"},
            only : BOOLEAN, omit : OmitArgs, fetch : {"none", "inner", "last"},
            search : {"none", "text", "vector"}, lines : {1, 2}] :
        q.search = "none" => q.lines = 1}

InitQuery ==
    /\ InitReady
    /\ RepoIdle
    /\ codec = IdleCodec
    /\ issued = <<>>
    /\ qry \in {[IdleQry EXCEPT !.pc = "input", !.q = q] : q \in Queries}

QueryNext ==
    \/ QryParse
    \/ \E ok \in BOOLEAN : QryConnect(ok)
    \/ QryExecute

SpecQuery == InitQuery /\ [][QueryNext]_vars

\* ---- specification of the field normalization ---------------------------

CodecKeys == JsonWriteKeys \cup BoolKeys \cup {"asset", "title"}

AssetParts == {"absent", "none", "empty", "text"}

CodecValues ==
    {PyNone, PyList(<<>>), PyList(<<"s:a">>), PyList(<<"i:1", "i:2">>),
     PyDict(<<"s:k">>), PyDict(<<"i:1">>), PyStr("", <<"s:x">>), PyStr("", <<>>),
     PyStr("list", <<"s:a">>), PyBool("true"), PyBool("false")}
      \cup {PyAsset(fp, url) : fp \in AssetParts, url \in AssetParts}

InitCodec ==
    /\ InitReady
    /\ RepoIdle
    /\ issued = <<>>
    /\ qry = IdleQry
    /\ codec \in {[pc |-> "input", key |-> k, val |-> v, row |-> EmptyDict, out |-> EmptyDict] :
                     k \in CodecKeys, v \in CodecValues}

CodecNext ==
    \/ CodecCreate
    \/ CodecRead

SpecCodec == InitCodec /\ [][CodecNext]_vars

\* ---- properties ----------------------------------------------------------

Terminal == {"completed", "failed"}

\* C1: single-writer mutual exclusion: in every reachable state at most one
\* write operation submitted through execute_write is executing on a writer
\* connection of the database path, however the calls interleave (calls that
\* overlap on first use of the pool included).
C1_SingleWriter ==
    Cardinality({e \in executing : e.by = "loop"}) <= 1

\* C2: shutdown drains the queue: a write enqueued on the pool before close()
\* was called has been executed when close() checkpoints and closes the writer
\* connection, and is never left in the queue of a pool whose write loop has
\* ended (no enqueued write is dropped).
C2_ShutdownDrains ==
    closer.pc # "idle" =>
        \A o \in 1..closer.mark :
            ops[o].pool = closer.pool =>
                /\ closer.pc \in {"checkpoint", "closeconn"} => ops[o].state = "executed"
                /\ ops[o].state = "queued" => TaskAlive(pool[closer.pool].task)

\* C3: close() terminates: close() is never left waiting in join() for items
\* that no write loop is there to finish.
C3_CloseTerminates ==
    (closer.pc = "join" /\ ~closer.woken) => TaskAlive(pool[closer.pool].task)

\* C4: re-entrant recovery: a write request that reaches an initialized pool
\* (on which close() has not been called) is enqueued for a live write loop
\* running on the caller's event loop, the pool having re-initialized if its
\* loop had ended or its recorded event loop differed.
C4_RecoveryOnDeadLoop ==
    [][Len(ops') > Len(ops) =>
         LET p == ops'[Len(ops')].pool
         IN  ~pool'[p].closed =>
                 /\ pool'[p].task # None
                 /\ tasks'[pool'[p].task].pc # "done"
                 /\ pool'[p].loop = curLoop']_vars

\* C5: FIFO write processing: of two requests enqueued on the same pool the
\* later one is not started before the earlier one has finished (in order, one
\* at a time); no request is run more than once and a started one has run
\* once; a resolved future holds the outcome of its own request, which has
\* run; and the write loop ends only by close() or with its event loop, never
\* because an operation raised.
C5_FifoProcessing ==
    /\ \A a, b \in DOMAIN ops :
          (a < b /\ ops[a].pool # None /\ ops[a].pool = ops[b].pool
                 /\ ops[b].state # "queued") => ops[a].state = "executed"
    /\ \A o \in DOMAIN ops :
          /\ ops[o].runs <= 1
          /\ ops[o].state # "queued" => ops[o].runs = 1
          /\ ops[o].fut \in {"result", "exception"} =>
                 ops[o].futVal = o /\ ops[o].state = "executed"
    /\ \A t \in DOMAIN tasks :
          tasks[t].pc = "done" =>
              pool[tasks[t].pool].closed \/ pool[tasks[t].pool].loop # curLoop

\* an operation raised, its caller's future holds the exception, and the
\* request behind it on the same pool has been executed and resolved
C5_Witness ==
    \E a, b \in DOMAIN ops :
        /\ a < b
        /\ ops[a].pool # None /\ ops[a].pool = ops[b].pool
        /\ ops[a].fut = "exception"
        /\ ops[b].fut = "result"

\* C6: a write timeout bounds only the caller's wait: the timeout cancels the
\* future and leaves the request where it is (queued or in flight); a request
\* leaves the queue only by being run by the write loop, cancelled future or
\* not; and after running a request whose future was abandoned the loop of a
\* pool that is not closed goes on to the next request.
C6_TimeoutLeavesWrite ==
    [][/\ \A o \in DOMAIN ops :
            (ops[o].fut = "pending" /\ ops'[o].fut = "cancelled") =>
                /\ ops'[o].state = ops[o].state
                /\ ops'[o].runs = ops[o].runs
                /\ pool' = pool
                /\ tasks' = tasks
                /\ executing' = executing
       /\ \A o \in DOMAIN ops :
            (ops[o].state = "queued" /\ ops'[o].state # "queued") =>
                /\ ops'[o].state = "exec"
                /\ ops'[o].runs = 1
                /\ \E e \in executing' : e.by = "loop" /\ e.op = o
       /\ \A t \in DOMAIN tasks :
            (/\ tasks[t].pc = "exec"
             /\ tasks'[t] # tasks[t]
             /\ ops[tasks[t].entry.future].fut = "cancelled"
             /\ ~pool'[tasks[t].pool].closed) => tasks'[t].pc \in {"get", "exec"}
      ]_vars

\* a request whose caller timed out has been run, and the loop is running the
\* request enqueued behind it
C6_Witness ==
    \E a \in DOMAIN ops, t \in DOMAIN tasks :
        /\ ops[a].fut = "cancelled"
        /\ ops[a].state = "executed"
        /\ tasks[t].pool = ops[a].pool
        /\ tasks[t].pc = "exec"
        /\ tasks[t].entry.func > a

\* C7: execute_write never hangs: a caller waiting for its write eventually
\* gets the result, the operation's exception or the timeout error, in every
\* state of the pool.
C7_ExecuteWriteReturns ==
    \A c \in Callers : (caller[c].pc = "waiting") ~> (caller[c].pc = "idle")

\* a request was enqueued on a pool whose write loop has ended, and its caller
\* has left with the timeout error
C7_Witness ==
    \E o \in DOMAIN ops :
        /\ ops[o].fut = "cancelled"
        /\ ops[o].state = "queued"
        /\ ~TaskAlive(pool[ops[o].pool].task)
        /\ \A c \in Callers : caller[c].op # o

\* C8: exclusive ownership of the writer connection: once a pool is
\* initialized, every statement running on its writer connection is run by the
\* write loop (the statements of initialize() itself run before the loop
\* exists).
C8_WriterOwnedByLoop ==
    \A e \in executing : e.by \in {"loop", "init"}

\* C9: terminal job states are mutually exclusive and absorbing: once
\* completed or failed is stored, no later write changes the status.
C9_TerminalAbsorbing ==
    [][job.status \in Terminal => job'.status = job.status]_vars

\* C10: no job is silently dropped: process_source ends by returning, never
\* by raising, and then the job row is completed, or failed with a non-empty
\* error_message.
C10_NoJobDropped ==
    wf.pc \in {"returned", "raised"} =>
        /\ wf.pc = "returned"
        /\ job.status \in Terminal
        /\ job.status = "failed" => job.error = "msg"

\* the ids of a collection of returned rows
IdsOf(rows) == {r["id"] : r \in rows}

\* C11: upsert idempotence: when a client has called upsert(table, id, data)
\* twice with the same id and the same data and both calls have returned,
\* the two calls have returned the same single row (one stored row for the
\* pair, whether or not a row with that id existed before), and the updated
\* timestamp the second call returned is >= the one the first returned.
C11_UpsertIdempotent ==
    \A c \in Clients :
        LET a == hist[c]
            b == call[c]
        IN  (/\ a.op = "upsert" /\ b.op = "upsert"
             /\ a.out = "ok" /\ b.pc = "done" /\ b.out = "ok"
             /\ a.id # NoId /\ a.id = b.id /\ a.table = b.table /\ a.data = b.data)
            => /\ Cardinality(IdsOf(a.ret) \cup IdsOf(b.ret)) = 1
               /\ \A x \in a.ret, y \in b.ret : y["updated"] >= x["updated"]

\* C12: write serialization of concurrent creates (on a Ready pool): every
\* create call that has got its id adds exactly one row once its INSERT has
\* run, so N calls leave N new rows when the queue is empty; the rows of the
\* table carry distinct ids; no create fails on a duplicate id; and a create
\* that returns, returns the stored row with the id generated for that call.
C12_ConcurrentCreates ==
    /\ Cardinality(db["note"]) + Len(wq.q) = ntok
    /\ \A x, y \in db["note"] : x["id"] = y["id"] => x = y
    /\ \A c \in Clients :
          /\ call[c].hit # "IntegrityError"
          /\ (call[c].op = "create" /\ call[c].pc = "done" /\ call[c].out = "ok") =>
                /\ IdsOf(call[c].ret) = {call[c].rid}
                /\ call[c].ret \subseteq {ReadRecord(r) : r \in db["note"]}
                /\ \A d \in Clients \ {c} : call[d].rid # call[c].rid

\* every client has made a create call, all have returned their rows, and the
\* table holds one new row per call
C12_Witness ==
    /\ \A c \in Clients : call[c].op = "create" /\ call[c].pc = "done" /\ call[c].out = "ok"
    /\ Cardinality(db["note"]) = Cardinality(InitDb["note"]) + Cardinality(Clients)
    /\ Cardinality({call[c].rid : c \in Clients}) = Cardinality(Clients)

\* C13: composite id invariant: after any sequence of create, insert, upsert,
\* update and relate calls, whatever data the callers supply (data that
\* carries its own id included), the id of every stored row has the form
\* <table>:<token> with the table the row is stored in; and the row a create
\* returns carries the generated id, not an id found in its data.
C13_CompositeId ==
    /\ \A t \in Tables : \A r \in db[t] : r["id"].colon /\ r["id"].pre = t
    /\ \A c \in Clients :
          (call[c].op = "create" /\ call[c].pc = "done" /\ call[c].out = "ok") =>
              IdsOf(call[c].ret) = {call[c].rid}

\* C14: bulk insert with ignore_duplicates: when a row of insert(table, rows,
\* ignore_duplicates) has hit a uniqueness violation, then with
\* ignore_duplicates set the call returns normally, it has gone through all
\* the remaining rows, and it returns the rows it has created; without
\* ignore_duplicates the call ends at that row with an error.
C14_InsertIgnoreDuplicates ==
    \A c \in Clients :
        LET k == call[c]
        IN  (k.op = "insert" /\ k.pc = "done" /\ k.hit = "IntegrityError") =>
                IF k.ignore
                THEN k.out = "ok" /\ k.todo = <<>> /\ IdsOf(k.ret) = k.made
                ELSE k.out = "RuntimeError"

\* C15: round trip of structured fields: a record created with a list or a
\* dict in one of the normalized fields (topics, embedding, speakers,
\* youtube_preferred_languages) reads back with an equal value in that
\* field; a record created with an asset object {file_path, url} reads back
\* with an equal asset, or with null when file_path and url are both empty.
C15_RoundTrip ==
    codec.pc = "read" =>
        /\ (codec.key \in JsonWriteKeys /\ codec.val.t \in {"list", "dict"}) =>
               codec.out[codec.key] = codec.val
        /\ (codec.key = "asset" /\ codec.val.t = "asset") =>
               codec.out["asset"] =
                   IF \A i \in 1..2 : codec.val.v[i] # "text" THEN PyNone ELSE codec.val

\* the rows of database d that are not the row with this id of this table
OtherRows(d, table, id) ==
    [t \in Tables |-> IF t = table THEN d[t] \ WhereId(d[t], id) ELSE d[t]]

\* C16: delete is idempotent and visible: a delete whose DELETE statement ran
\* returns success whether or not a row matched; once delete(id) has returned,
\* no row with that id exists and the point query by that id is empty;
\* deleting again, or deleting an id that never existed, succeeds, and the
\* statement leaves every other row as it was.
C16_DeleteIdempotent ==
    [][/\ \A c \in Clients :
            (call[c].via = "delete" /\ call[c].pc = "write" /\ call[c].res = "ok"
                /\ call'[c] # call[c]) =>
                call'[c].pc = "done" /\ call'[c].out = "ok"
       /\ \A c \in Clients :
            (call'[c].op = "delete" /\ call'[c].pc = "done" /\ call'[c].out = "ok") =>
                SelectById(db', call'[c].table, call'[c].rid) = {}
       /\ (wq.busy /\ ~wq'.busy /\ Head(wq.q).stmt.kind = "delete") =>
            LET stmt == Head(wq.q).stmt
            IN  /\ OtherRows(db', stmt.table, stmt.id) = OtherRows(db, stmt.table, stmt.id)
                /\ WhereId(db'[stmt.table], stmt.id) = {}
      ]_vars

\* a client has deleted the stored row and then deleted it again, and both
\* calls returned success
C16_Witness ==
    \E c \in Clients :
        /\ hist[c].op = "delete" /\ hist[c].out = "ok"
        /\ call[c].op = "delete" /\ call[c].pc = "done" /\ call[c].out = "ok"
        /\ hist[c].id = call[c].id
        /\ call[c].id \in IdsOf(InitDb["note"])

\* the table name a call puts into its statement: the prefix of the id for
\* delete, and for update when the prefix differs from the table argument
ArgTable(k) ==
    CASE k.op = "delete" -> k.id.pre
      [] k.op = "update" -> IF k.id.colon /\ k.id.pre # k.table THEN k.id.pre ELSE k.table
      [] OTHER -> k.table

\* the call has a table name, a relationship name or a data key that is not
\* an identifier, or is a delete of an id without a table prefix
InvalidArgs(k) ==
    /\ k.op \in {"create", "update", "upsert", "relate", "delete", "ensure_table"}
    /\ \/ ~IsIdentifier(ArgTable(k))
       \/ \E key \in DOMAIN k.data : ~IsIdentifier(key)
       \/ k.op = "delete" /\ ~k.id.colon

NormalizedId(table, id) == IF id.colon THEN id ELSE MkId(table, id.tok)

\* C18: update targets exactly one row and keeps its id: the UPDATE that
\* update(table, id, data) enqueues names the normalized id and the table of
\* that id's prefix (the prefix wins over the table argument), carries no id
\* column and carries the current time as updated; when it runs it changes
\* no row but the one with that id and changes the id of no row; and the call
\* returns the row with that id as re-read.
C18_UpdateOneRow ==
    [][/\ (Len(wq'.q) > Len(wq.q) /\ wq'.q[Len(wq'.q)].stmt.kind = "update") =>
            LET e    == wq'.q[Len(wq'.q)]
                stmt == e.stmt
                k    == call'[e.by]
            IN  /\ "id" \notin DOMAIN stmt.data
                /\ "updated" \in DOMAIN stmt.data /\ stmt.data["updated"] = clock
                /\ k.op = "update" =>
                      /\ stmt.id = NormalizedId(k.arg, k.id)
                      /\ stmt.table = stmt.id.pre
                      /\ \A key \in DOMAIN k.data \ {"id", "updated"} :
                            stmt.data[key] = k.data[key]
       /\ (wq.busy /\ ~wq'.busy /\ Head(wq.q).stmt.kind = "update") =>
            LET stmt == Head(wq.q).stmt
            IN  /\ OtherRows(db', stmt.table, stmt.id) = OtherRows(db, stmt.table, stmt.id)
                /\ \A t \in Tables : IdsOf(db'[t]) = IdsOf(db[t])
                /\ Cardinality(WhereId(db'[stmt.table], stmt.id)) <= 1
                /\ db' # db =>
                      \A r \in WhereId(db'[stmt.table], stmt.id) :
                          /\ r["updated"] = stmt.data["updated"]
                          /\ \A x \in WhereId(db[stmt.table], stmt.id) :
                                r["created"] = x["created"]
       /\ \A c \in Clients :
            (call'[c].op = "update" /\ call'[c].pc = "done" /\ call'[c].out = "ok"
                /\ call[c].pc = "read") =>
                /\ call'[c].ret = {ReadRecord(r) : r \in WhereId(db[call[c].table], call[c].rid)}
                /\ call[c].rid = NormalizedId(call[c].arg, call[c].id)
      ]_vars

\* update("reference", "note:1", {id: "note:7", name: 2}) has returned the
\* stored note row with its id, the new name and a newer updated stamp
C18_Witness ==
    \E c \in Clients :
        /\ call[c].op = "update" /\ call[c].pc = "done" /\ call[c].out = "ok"
        /\ call[c].arg = "reference" /\ call[c].id = MkId("note", 1)
        /\ call[c].data = IdData
        /\ \E r \in call[c].ret :
              /\ r["id"] = MkId("note", 1)
              /\ r["name"] = 2
              /\ r["updated"] > r["created"]
        /\ IdsOf(db["note"]) = {MkId("note", 1)}

\* C19: no native exception crosses the facade boundary: a call of query,
\* create, update, upsert, delete, relate, insert or ensure_table that fails
\* because of a native engine exception (raised while a connection is
\* acquired, a statement executes or a row is fetched) raises the facade
\* error RuntimeError, never the native exception itself, and the native
\* exception is its cause (through the error of the nested repo_create or
\* repo_update for upsert and insert).
C19_NoNativeEscapes ==
    \A c \in Clients :
        LET k == call[c]
        IN  (k.pc = "done" /\ k.hit \in Native /\ k.out # "ok") =>
                /\ k.out = "RuntimeError"
                /\ k.cause = IF k.op \in {"upsert", "insert"} /\ k.via # k.op
                             THEN "RuntimeError" ELSE k.hit

\* the statements in the write queue that call k of client c has enqueued
Enqueued(c, k) == {i \in DOMAIN wq.q : wq.q[i].by = c /\ wq.q[i].n = k.n}

\* C20: reads are independent of the write queue: a query never enqueues on
\* the write queue and never waits for it, and a read in progress can complete
\* in every state, whatever the queue holds, whether a write is in flight or
\* the write loop is wedged, and whatever the other clients' reads and writes
\* are doing.
C20_ReadsBypassQueue ==
    \A c \in Clients :
        /\ call[c].op = "query" =>
              /\ call[c].pc \in {"read", "done"}
              /\ call[c].res = "none"
              /\ Enqueued(c, call[c]) = {}
        /\ call[c].pc \in {"read", "exists"} => ENABLED CallReadDone(c, "ok")

\* a query is in progress while the write of another client, whose wait has
\* timed out, is in flight in the write loop
C20_Witness ==
    \E c, w \in Clients :
        /\ c # w
        /\ call[c].op = "query" /\ call[c].pc = "read"
        /\ wq.busy
        /\ Enqueued(w, call[w]) # {}
        /\ call[w].pc = "done" /\ call[w].out = "RuntimeError"

\* client c has made two calls, hist[c] and then call[c], and no other client
\* has made any
Alone(c) == call[c].n = 2 /\ \A d \in Clients \ {c} : call[d].n = 0

\* C21: a job status update is a partial update: after update_status(id,
\* status, progress?, result?, error_message?) on an existing job has
\* returned, get_status(id) returns the new status and, for each of progress,
\* result and error_message, the supplied value when one was supplied and the
\* previously stored value when it was not; id, app, command, input and
\* created of the job are unchanged.
C21_PartialUpdate ==
    \A c \in Clients :
        LET u == hist[c]
            g == call[c]
        IN  (/\ Alone(c)
             /\ u.op = "update_command_status" /\ u.out = "ok"
             /\ u.id = StoredJob["id"]
             /\ g.op = "get_command_status" /\ g.pc = "done" /\ g.id = u.id)
            => /\ g.out = "ok"
               /\ \E s \in g.ret :
                     /\ g.ret = {s}
                     /\ s["job_id"] = StoredJob["id"]
                     /\ s["created"] = StoredJob["created"]
                     /\ s["status"] = u.args[1]
                     /\ s["progress"] = IF u.args[2] # NullOf("progress")
                                        THEN u.args[2] ELSE StoredJob["progress"]
                     /\ s["result"] = IF u.args[3] # "null"
                                      THEN u.args[3] ELSE JobLoads(StoredJob["result"])
                     /\ s["error_message"] = IF u.args[4] # "null"
                                             THEN u.args[4]
                                             ELSE StoredJob["error_message"]
               /\ \E r \in db["command"] :
                     /\ r["id"] = StoredJob["id"]
                     /\ \A col \in {"app", "command", "input", "created"} :
                           r[col] = StoredJob[col]

\* an update that supplies a result but neither progress nor error message
\* has been read back
C21_Witness ==
    \E c \in Clients :
        /\ Alone(c)
        /\ hist[c].op = "update_command_status" /\ hist[c].out = "ok"
        /\ hist[c].id = StoredJob["id"]
        /\ hist[c].args[2] = NullOf("progress")
        /\ hist[c].args[3] # "null"
        /\ hist[c].args[4] = "null"
        /\ call[c].op = "get_command_status" /\ call[c].pc = "done"
        /\ call[c].id = hist[c].id /\ call[c].out = "ok"

\* the write loop finishes the INSERT of a create_command_record call that is
\* waiting for it
CreateExecuted(k) ==
    /\ wq.busy /\ ~wq'.busy
    /\ Head(wq.q).stmt.kind = "insert"
    /\ call[Head(wq.q).by] = k
    /\ k.n = Head(wq.q).n
    /\ k.op = "create_command_record" /\ k.pc = "write"

\* C22: job creation: create(app, command_name, input) stores exactly one new
\* job row and returns its id, which starts with 'command:'; get_status on
\* that id, before any update, returns status 'queued', progress 0 and result
\* null.
C22_JobCreation ==
    [][\A c \in Clients :
          /\ CreateExecuted(call[c]) /\ call'[c].res = "ok" =>
                \E r \in db'["command"] :
                    /\ r \notin db["command"]
                    /\ db' = [db EXCEPT !["command"] = @ \cup {r}]
                    /\ r["id"] = call[c].rid
                    /\ r["id"] \notin IdsOf(db["command"])
                    /\ r["app"] = call[c].args[1]
                    /\ r["command"] = call[c].args[2]
                    /\ r["input"] = JobDumps(call[c].args[3])
          /\ CreateExecuted(call[c]) /\ call'[c].res # "ok" => db' = db
          /\ (call'[c].op = "create_command_record" /\ call'[c].pc = "done"
                 /\ call'[c].out = "ok") =>
                /\ call'[c].rid.colon /\ call'[c].rid.pre = "command"
                /\ \E r \in call'[c].ret : call'[c].ret = {r} /\ r["id"] = call'[c].rid
          /\ (Alone(c)' /\ hist'[c].op = "create_command_record" /\ hist'[c].out = "ok"
                 /\ call'[c].op = "get_command_status" /\ call'[c].pc = "done"
                 /\ call'[c].id = hist'[c].rid) =>
                /\ call'[c].out = "ok"
                /\ \E s \in call'[c].ret :
                      /\ call'[c].ret = {s}
                      /\ s["job_id"] = hist'[c].rid
                      /\ s["status"] = "queued"
                      /\ s["progress"] = 0
                      /\ s["result"] = "null"]_vars

\* a job has been created on a database without a command table and its
\* status has been read
C22_Witness ==
    \E c \in Clients :
        /\ Alone(c)
        /\ hist[c].op = "create_command_record" /\ hist[c].out = "ok"
        /\ call[c].op = "get_command_status" /\ call[c].pc = "done"
        /\ call[c].id = hist[c].rid /\ call[c].out = "ok"
        /\ StoredJob \notin db["command"]

\* C23: get_status on an id for which no job row exists raises the not-found
\* error; it never returns null or a record with default fields: on a healthy
\* engine every get_status that has ended has returned the record of the id
\* it was asked for or has raised the not-found error.
C23_NotFound ==
    \A c \in Clients :
        (call[c].op = "get_command_status" /\ call[c].pc = "done") =>
            \/ /\ call[c].out = "ok"
               /\ \E s \in call[c].ret :
                     call[c].ret = {s} /\ s["job_id"] = call[c].id
            \/ call[c].out = "ValueError"

\* the write loop finishes a CREATE TABLE IF NOT EXISTS statement
EnsureExecuted == wq.busy /\ ~wq'.busy /\ Head(wq.q).stmt.kind = "ddl"

\* call k has just passed the waiting for its ensure_table statement
EnsureReturned(k0, k1) ==
    /\ k0.via = "ensure_table" /\ k0.pc = "write"
    /\ k1.n = k0.n
    /\ k1.via # "ensure_table" \/ (k1.pc = "done" /\ k1.out = "ok")

\* C30: schema provisioning is idempotent and goes through the write path:
\* every ensure_table call puts its statement on the write queue and executes
\* nothing itself, the write loop's execution of the statement leaves the
\* table present with every stored row of every table intact, and the call
\* goes on only after the write loop has executed its statement.
C30_EnsureIdempotent ==
    [][/\ \A c \in Clients :
            /\ (call'[c].n # call[c].n /\ call'[c].via = "ensure_table"
                   /\ call'[c].pc = "write") =>
                  /\ db' = db
                  /\ wq'.busy = wq.busy
                  /\ wq'.q = Append(wq.q, [stmt |-> [kind |-> "ddl",
                                                     table |-> call'[c].table,
                                                     data |-> NoData, id |-> NoId],
                                           by |-> c, n |-> call'[c].n])
            /\ EnsureReturned(call[c], call'[c]) =>
                  /\ call[c].res = "ok"
                  /\ Enqueued(c, call[c]) = {}
                  /\ call[c].table \in db[Catalog]
       /\ EnsureExecuted =>
            LET table == Head(wq.q).stmt.table
            IN  /\ table \in db'[Catalog]
                /\ db'[Catalog] = db[Catalog] \cup {table}
                /\ \A t \in Tables :
                      db'[t] = IF t \in db[Catalog] THEN db[t] ELSE {}]_vars

\* ensure_table has returned twice on a command table that holds a job
C30_Witness ==
    \E c \in Clients :
        /\ Alone(c)
        /\ hist[c].op = "ensure_table" /\ hist[c].out = "ok"
        /\ call[c].op = "ensure_table" /\ call[c].pc = "done" /\ call[c].out = "ok"
        /\ StoredJob \in db["command"]

\* the updates of a run in which every step succeeds
AllSucceed ==
    <<[status |-> "running", given |-> {"progress"}, progress |-> 10,
       result |-> "null", error |-> "null"],
      [status |-> "running", given |-> {"progress"}, progress |-> 20,
       result |-> "null", error |-> "null"],
      [status |-> "running", given |-> {"progress"}, progress |-> 80,
       result |-> "null", error |-> "null"],
      [status |-> "completed", given |-> {"progress", "result"}, progress |-> 100,
       result |-> "success", error |-> "null"]>>

\* update u reports the failure of a step whose exception has message msg
ReportsFailure(u, msg) ==
    /\ u.status = "failed"
    /\ u.given = {"result", "error_message"}
    /\ u.result = "failure"
    /\ u.error = msg

\* C24: workflow status sequence: a process_source run in which every step
\* succeeds issues exactly four status updates in this order: running/10,
\* running/20, running/80, completed/100 with a result whose success is true;
\* in every run the progress values issued are strictly increasing, and a run
\* in which a step fails issues as its last update status failed with the
\* error message and a result whose success is false.
C24_StatusSequence ==
    /\ \A i, j \in DOMAIN issued :
          (i < j /\ "progress" \in issued[i].given /\ "progress" \in issued[j].given)
              => issued[i].progress < issued[j].progress
    /\ \A i \in DOMAIN issued :
          \/ i <= Len(AllSucceed) /\ issued[i] = AllSucceed[i]
          \/ i = Len(issued) /\ issued[i].status = "failed"
    /\ (wf.pc = "UFAIL" /\ wf.phase # "call") =>
          issued # <<>> /\ ReportsFailure(issued[Len(issued)], wf.err)
    /\ wf.pc = "returned" =>
          \/ issued = AllSucceed
          \/ issued # <<>> /\ \E msg \in {"msg", "empty"} :
                                 ReportsFailure(issued[Len(issued)], msg)
    /\ wf.pc = "raised" =>
          issued # <<>> /\ \E msg \in {"msg", "empty"} :
                               ReportsFailure(issued[Len(issued)], msg)

\* a run in which every step succeeded has returned
C24_Witness ==
    /\ wf.pc = "returned"
    /\ issued = AllSucceed
    /\ job.status = "completed"

\* C25: job field presence invariant: in every state of a job created by the
\* tracker and driven by the processing workflow, error_message is non-null
\* only if status is failed, and result is non-null only if status is
\* completed or failed.
C25_FieldPresence ==
    /\ job.error # "null" => job.status = "failed"
    /\ job.result # "null" => job.status \in Terminal

\* a failed job holds an error message and a result, after the result of the
\* completed run had been stored
C25_Witness ==
    /\ job.status = "failed"
    /\ job.error # "null"
    /\ job.result = "failure"
    /\ Len(issued) = Len(AllSucceed) + 1

\* C26: unsupported search is rejected before execution: a query passed to
\* repo_query that contains a call of fn::text_search or fn::vector_search
\* raises NotImplementedError naming that capability, and no connection is
\* opened and no statement is executed for it, whatever other constructs
\* (CREATE, DELETE, omit, fetch) the query also contains.
C26_SearchRejected ==
    (qry.q.search # "none" /\ qry.pc # "input") =>
        /\ qry.pc = "done"
        /\ qry.out = "NotImplementedError"
        /\ qry.msg = IF qry.q.search = "text" THEN "text_search" ELSE "vector_search"
        /\ ~qry.opened
        /\ ~qry.executed

\* path is one of the field paths of the omit clause of the query
Omitted(path) == \E i \in DOMAIN qry.q.omit : qry.q.omit[i] = path

\* the rows the query returns without its omit clause
WithoutOmit == PostProcess(SelectRows(qry.sql, qry.vars), <<>>, qry.fetch_fields)

\* C28: omit directive: for a query with an omit clause, the omitted field
\* paths (plain or one level nested) are absent from every returned row, all
\* other fields of each row are returned as the query without the clause
\* returns them, and the reserved directive keys are not among the variables
\* bound when the statement is executed.
C28_OmitDirective ==
    /\ qry.executed => qry.bound \cap {"__omit_fields__", "__fetch_fields__"} = {}
    /\ (qry.pc = "done" /\ qry.out = "ok" /\ qry.q.omit # <<>>) =>
          /\ Len(qry.ret) = Len(WithoutOmit)
          /\ \A i \in DOMAIN qry.ret :
                LET r == qry.ret[i]
                    b == WithoutOmit[i]
                IN  /\ DOMAIN r = {f \in DOMAIN b : ~Omitted(<<f>>)}
                    /\ \A f \in DOMAIN r :
                          /\ r[f].k = b[f].k
                          /\ r[f].s = b[f].s
                          /\ DOMAIN r[f].d = {g \in DOMAIN b[f].d : ~Omitted(<<f, g>>)}
                          /\ \A g \in DOMAIN r[f].d : r[f].d[g] = b[f].d[g]

\* C27: lookup by composite id round-trips: for every record returned by
\* create(table, data), query('SELECT * FROM $id', {id: record.id}), with or
\* without ONLY, is executed against the table named by the prefix of the id
\* and returns exactly that one record.
C27_LookupById ==
    \A c \in Clients :
        LET u == hist[c]
            g == call[c]
        IN  (/\ Alone(c)
             /\ u.op = "create" /\ u.out = "ok"
             /\ g.op = "query" /\ g.pc = "done"
             /\ g.id \in IdsOf(u.ret))
            => /\ g.out = "ok"
               /\ g.table = g.id.pre
               /\ g.table = u.table
               /\ g.ret = u.ret
               /\ Cardinality(g.ret) = 1

\* a record created in the reference table has been looked up with ONLY
C27_Witness ==
    \E c \in Clients :
        /\ Alone(c)
        /\ hist[c].op = "create" /\ hist[c].out = "ok" /\ hist[c].table = "reference"
        /\ call[c].op = "query" /\ call[c].pc = "done" /\ call[c].out = "ok"
        /\ call[c].id \in IdsOf(hist[c].ret)
        /\ call[c].args[1].only

\* SELECT s.* FROM note s INNER JOIN relationship r ON r."in" = s.id
\* WHERE r."out" = target
JoinRead(d, relationship, target) ==
    {s \in d["note"] : \E r \in d[relationship] : r["in"] = s["id"] /\ r["out"] = target}

\* C29: relate(source_id, relationship, target_id, data?) stores one row in
\* the table named by relationship with in = source_id and out = target_id and
\* returns that row as a single-element collection; when it returns, a read
\* that joins the relationship table on in / out finds the source record for
\* that target.
C29_Relate ==
    [][\A c \in Clients :
          (call[c].pc # "done" /\ call'[c].pc = "done" /\ call'[c].op = "relate"
              /\ call'[c].out = "ok") =>
            LET k == call'[c]
            IN  /\ \E r \in k.ret :
                      /\ k.ret = {r}
                      /\ r["in"] = k.args[1]
                      /\ r["out"] = k.args[2]
                      /\ \E x \in db'[k.table] : ReadRecord(x) = r
                /\ \A s \in db'["note"] :
                      s["id"] = k.args[1] => s \in JoinRead(db', k.table, k.args[2])]_vars


\* a pool on which a write or a bootstrap statement may run: it is marked
\* initialized, has a write-loop task, or its connection is in use by the
\* write loop or by a caller of get_writer_connection
InUse(p) ==
    \/ pool[p].initialized
    \/ \E t \in DOMAIN tasks : tasks[t].pool = p
    \/ \E e \in executing : e.conn = p /\ e.by \in {"loop", "bootstrap"}
    \/ \E c \in Procs : caller[c].pool = p /\ caller[c].pc \in {"waiting", "boot_exec", "boot_commit"}

\* C31: within initialize() the writer connection is created, then the schema
\* applied and the connection switched to autocommit, then the write loop
\* started and the loop recorded, and only then the pool marked initialized:
\* no queued write runs and get_writer_connection hands out no connection
\* while the connection is missing or the schema script is still running.
C31_InitOrdering ==
    \A p \in DOMAIN pool :
        InUse(p) =>
            /\ pool[p].conn # "none"
            /\ ~\E e \in executing : e.conn = p /\ e.by = "init"
            /\ pool[p].task # None
            /\ pool[p].loop # None
            /\ pool[p].initialized

\* a queued write and a bootstrap statement run on an initialized pool
C31_Witness ==
    \E e \in executing, t \in DOMAIN tasks :
        /\ e.by = "bootstrap"
        /\ tasks[t].pool = e.conn
        /\ tasks[t].pc = "exec"
        /\ pool[e.conn].initialized


\* the write loops of pool p that have not ended
RunningLoops(p) == {t \in DOMAIN tasks : tasks[t].pool = p /\ tasks[t].pc # "done"}

\* initialize() starts to re-initialize pool p in this step
Reinitializes(p) ==
    /\ p \in DOMAIN pool
    /\ pool[p].initialized
    /\ ~pool'[p].initialized

\* C32: whenever initialize() re-initializes the pool, because the event loop
\* changed or because the write loop has died, the pending write queue is
\* discarded, so that no write queued before is executed by the new loop.
C32_ReinitDiscardsQueue ==
    [][\A p \in DOMAIN pool : Reinitializes(p) => pool'[p].queue = <<>>]_vars

\* a call of initialize() on pool p returns in this step
InitializeReturns(c, p) ==
    /\ caller[c].pool = p
    /\ caller[c].pc = "init_schema"
    /\ caller'[c].pc # "init_schema"

\* C37: after any sequence of initialize() calls on one pool, overlapping
\* calls and recovery re-initializations included, exactly one write loop is
\* running on the queue of the pool and exactly one writer connection is open.
C37_OneLoopOneConnection ==
    [][\A c \in Callers, p \in DOMAIN pool :
          InitializeReturns(c, p) =>
              /\ Cardinality({t \in DOMAIN tasks' : tasks'[t].pool = p /\ tasks'[t].pc # "done"}) = 1
              /\ pool'[p].conns = 1]_vars


\* C35: for the one database path at most one pool with a running write loop
\* exists at any time, and until close_connection_pool is called every caller
\* of get_connection_pool works on the pool of the registry, also when several
\* callers make their first call concurrently.
C35_RegistryUnique ==
    /\ Cardinality({p \in DOMAIN pool : RunningLoops(p) # {}}) <= 1
    /\ (registry # None /\ \A p \in DOMAIN pool : ~pool[p].closed) =>
           \A c \in Callers : caller[c].pc = "waiting" => caller[c].pool = registry

\* C36: while close() checkpoints or closes the writer connection no queued
\* write is executing on that connection, and a write submitted to the pool
\* after close() has begun is never executed against the connection.
C36_NoWriteDuringClose ==
    closer.pc # "idle" =>
        /\ closer.pc \in {"checkpoint", "closeconn"} =>
               ~\E e \in executing : e.conn = closer.pool /\ e.by = "loop"
        /\ \A o \in DOMAIN ops :
               (o > closer.mark /\ ops[o].pool = closer.pool) =>
                   ops[o].state = "queued" /\ ops[o].runs = 0


\* a job id that no create_command_record ever generates
UnknownJob == MkId("command", 9)

\* the write loop finishes an UPDATE statement that matches no stored row
UpdateOfMissingRow ==
    /\ wq.busy /\ ~wq'.busy
    /\ Head(wq.q).stmt.kind = "update"
    /\ Head(wq.q).stmt.table \in db[Catalog]
    /\ WhereId(db[Head(wq.q).stmt.table], Head(wq.q).stmt.id) = {}

\* C34: update of a missing row is a silent no-op: update(table, id, data)
\* for an id with no stored row, and so update_status for an unknown job id,
\* raises no error, creates no row, leaves the database unchanged and returns
\* an empty collection; a following get_status on that id still raises the
\* not-found error.  (An update whose wait for the write loop timed out, the
\* RuntimeError of execute_write, is left aside.)
C34_UpdateMissingRow ==
    [][/\ UpdateOfMissingRow => db' = db
       /\ \A c \in Clients :
             /\ (call'[c].op = "update_command_status" /\ call'[c].id = UnknownJob
                    /\ call'[c].pc = "done" /\ call'[c].hit # "RuntimeError")
                  => call'[c].out = "ok" /\ call'[c].ret = {}
             /\ (hist'[c].op = "update_command_status" /\ hist'[c].id = UnknownJob
                    /\ hist'[c].out = "ok"
                    /\ call'[c].op = "get_command_status" /\ call'[c].id = UnknownJob
                    /\ call'[c].pc = "done")
                  => call'[c].out = "ValueError"]_vars


C38_QueryReadOnly ==
    [][/\ qry'.stored = qry.stored
       /\ db' = db
       /\ qry'.executed => qry'.conn = "query_only"]_vars

\* a translated DELETE was executed and the call has ended
C38_Witness ==
    /\ qry.pc = "done"
    /\ qry.sql.kind = "delete"
    /\ qry.sql.rest = {}
    /\ qry.executed
    /\ qry.out = "RuntimeError"
    /\ qry.stored = InsightRows


\* C39: only validated identifiers reach SQL text: in every statement the
\* facade builds by interpolation (create, update, delete, the SELECT-by-id
\* rewrite of query) the table and column names have passed the identifier
\* check; a table name taken from an id value is never interpolated unchecked.
C39_ValidatedIdentifiers ==
    /\ \A i \in DOMAIN wq.q :
          /\ IsIdentifier(wq.q[i].stmt.table)
          /\ ValidateKeys(wq.q[i].stmt.data)
    /\ \A c \in Clients :
          (call[c].pc \in {"read", "exists"} /\ call[c].table # "") =>
              IsIdentifier(call[c].table)

====
